---- MODULE Spec2Model ----
(***************************************************************************)
(* Triangulated rent estimator (src/_backend/rent_estimator_v2.py) and the *)
(* ML prediction service it calls (src/_backend/ml_rent_estimator).        *)
(*                                                                         *)
(* Conventions of the model                                                *)
(*   - a Python Optional is a sequence of length <= 1: None is << >> and   *)
(*     the value v is <<v>>;                                               *)
(*   - a Python str is a sequence of one-character strings;                *)
(*   - a fractional number is an exact rational <<numerator, denominator>> *)
(*     with a positive denominator, kept in lowest terms;                  *)
(*   - money is in whole dollars, distances in hundredths of a mile;       *)
(*   - all points lie on one meridian, where the haversine distance is the *)
(*     arc length between the two latitudes; a latitude is the arc length  *)
(*     from a reference parallel, in hundredths of a mile.                 *)
(***************************************************************************)
EXTENDS Integers, Sequences, FiniteSets, TLC

\* ------------------------------------------------------------------------
\* Optional values and Python truthiness
\* ------------------------------------------------------------------------
None == << >>

Some(v) == <<v>>

Val(o) == o[1]

\* truthiness of an Optional number: None and 0 are falsy
TruthyNum(o) == o # None /\ Val(o) # 0

\* truthiness of an Optional str: None and "" are falsy
TruthyStr(o) == o # None /\ Val(o) # << >>

\* ------------------------------------------------------------------------
\* Integer and rational arithmetic
\* ------------------------------------------------------------------------
Abs(x) == IF x < 0 THEN -x ELSE x

Min(a, b) == IF a <= b THEN a ELSE b

RECURSIVE GCD(_, _)
GCD(a, b) == IF b = 0 THEN a ELSE GCD(b, a % b)

\* the rational n/d (d # 0) in lowest terms with a positive denominator
Rat(n, d) ==
    LET s == IF d < 0 THEN -1 ELSE 1
        g == GCD(Abs(n), Abs(d))
    IN  <<(s * n) \div g, (s * d) \div g>>

\* Common factors are taken out before multiplying, which keeps the
\* intermediate products small.
RAdd(a, b) ==
    LET g == GCD(a[2], b[2])
    IN  Rat(a[1] * (b[2] \div g) + b[1] * (a[2] \div g), (a[2] \div g) * b[2])

RSub(a, b) == RAdd(a, <<-b[1], b[2]>>)

RMul(a, b) ==
    LET g == GCD(Abs(a[1]), b[2])
        h == GCD(Abs(b[1]), a[2])
    IN  Rat((a[1] \div g) * (b[1] \div h), (a[2] \div h) * (b[2] \div g))

RDiv(a, b) == RMul(a, IF b[1] < 0 THEN <<-b[2], -b[1]>> ELSE <<b[2], b[1]>>)

RLess(a, b) ==
    LET g == GCD(a[2], b[2])
    IN  a[1] * (b[2] \div g) < b[1] * (a[2] \div g)

RAbs(a) == <<Abs(a[1]), a[2]>>

RMin(a, b) == IF RLess(b, a) THEN b ELSE a

RMax(a, b) == IF RLess(a, b) THEN b ELSE a

RInt(n) == <<n, 1>>

\* Python round(): n/d (d > 0) to the nearest integer, ties to even
RoundHalfEven(n, d) ==
    LET q == n \div d
        r == n % d
    IN  IF 2 * r < d THEN q
        ELSE IF 2 * r > d THEN q + 1
        ELSE IF q % 2 = 0 THEN q ELSE q + 1

RRound(a) == RoundHalfEven(a[1], a[2])

\* ------------------------------------------------------------------------
\* Strings
\* ------------------------------------------------------------------------
LowerChars == <<"a", "b", "c", "d", "e", "f", "g", "h", "i", "j", "k", "l", "m",
                "n", "o", "p", "q", "r", "s", "t", "u", "v", "w", "x", "y", "z">>

UpperChars == <<"A", "B", "C", "D", "E", "F", "G", "H", "I", "J", "K", "L", "M",
                "N", "O", "P", "Q", "R", "S", "T", "U", "V", "W", "X", "Y", "Z">>

Whitespace == {" ", "\t", "\n"}

UpperChar(c) ==
    IF \E i \in 1..26 : LowerChars[i] = c
    THEN UpperChars[CHOOSE i \in 1..26 : LowerChars[i] = c]
    ELSE c

\* str.upper()
Upper(s) == [i \in 1..Len(s) |-> UpperChar(s[i])]

\* str.strip()
Strip(s) ==
    LET keep == {i \in 1..Len(s) : s[i] \notin Whitespace}
    IN  IF keep = {} THEN << >>
        ELSE LET lo == CHOOSE i \in keep : \A j \in keep : i <= j
                 hi == CHOOSE i \in keep : \A j \in keep : j <= i
             IN  SubSeq(s, lo, hi)

\* sub in s
Contains(s, sub) ==
    \E i \in 1..(Len(s) - Len(sub) + 1) : SubSeq(s, i, i + Len(sub) - 1) = sub

\* s.split(ch)[0]
SplitFirst(s, ch) ==
    LET hits == {i \in 1..Len(s) : s[i] = ch}
    IN  IF hits = {} THEN s
        ELSE SubSeq(s, 1, (CHOOSE i \in hits : \A j \in hits : i <= j) - 1)

DigitChars == <<"0", "1", "2", "3", "4", "5", "6", "7", "8", "9">>

\* str(n) for an integer n >= 0
RECURSIVE IntToStr(_)
IntToStr(n) ==
    IF n < 10 THEN <<DigitChars[n + 1]>>
    ELSE Append(IntToStr(n \div 10), DigitChars[(n % 10) + 1])

\* ------------------------------------------------------------------------
\* PropertyTypeGate
\* ------------------------------------------------------------------------
NON_RENTABLE_TYPES ==
    { <<"L", "A", "N", "D">>,
      <<"L", "O", "T">>,
      <<"L", "O", "T", "S">>,
      <<"V", "A", "C", "A", "N", "T">>,
      <<"V", "A", "C", "A", "N", "T", "_", "L", "A", "N", "D">>,
      <<"L", "O", "T", "S", "/", "L", "A", "N", "D">>,
      <<"F", "A", "R", "M">>,
      <<"M", "O", "B", "I", "L", "E", "_", "L", "A", "N", "D">>,
      <<"O", "T", "H", "E", "R">>,
      <<"T", "I", "M", "B", "E", "R", "L", "A", "N", "D">>,
      <<"A", "G", "R", "I", "C", "U", "L", "T", "U", "R", "A", "L">> }

PartialMatches ==
    { <<"L", "A", "N", "D">>, <<"L", "O", "T">>, <<"V", "A", "C", "A", "N", "T">> }

is_non_rentable(property_type) ==
    IF ~TruthyStr(property_type) THEN FALSE
    ELSE LET pt_upper == Strip(Upper(Val(property_type)))
         IN  \/ pt_upper \in NON_RENTABLE_TYPES
             \/ \E x \in PartialMatches : Contains(pt_upper, x)

\* ------------------------------------------------------------------------
\* Data stores and the model artifact
\* ------------------------------------------------------------------------
VARIABLES
    market_benchmarks,  \* table: zip_code (str) -> Optional safmr_data dict
    rental_listings,    \* table: sequence of rows, in the order a scan returns them
    HAS_ML_MODEL,       \* whether the import of ml_rent_estimator.predict succeeded
    model_pkl,          \* model artifact on disk: None, or the model
    cached_model        \* predict._cached_model

\* ------------------------------------------------------------------------
\* One call of estimate_rent_v2
\* ------------------------------------------------------------------------
VARIABLES
    query,          \* the arguments of the call
    pc,             \* position of the call
    hud_rent,       \* local of estimate_rent_v2
    comps_result,   \* (comps_median, comps, comp_count)
    ml_prediction,  \* local of estimate_rent_v2
    result,         \* None until the call ends, then the RentEstimate
    calls,          \* external calls issued so far, in order
    failed          \* sources whose store, artifact or prediction failed

\* the model metadata and the concurrent callers of predict.load_model
VARIABLES
    metadata_json,    \* model_metadata.json on disk: None, or the metadata dict
    cached_metadata,  \* predict._cached_metadata
    call_pc,          \* position of each concurrent call of predict_rent
    call_model,       \* the model load_model returned to each call
    call_meta,        \* the metadata load_model returned to each call
    call_ml           \* the 'ml_estimate' of each call

\* the listings table and the backfill daemon
VARIABLES
    listings,  \* table: id -> row with estimated_rent (Optional) and listing_status
    bf_pc,     \* position of backfill_rent
    bf_ids     \* ids of the batch selected by backfill_rent

callVars == <<call_pc, call_model, call_meta, call_ml>>

backfillVars == <<listings, bf_pc, bf_ids>>

\* a call of enrich_data.make_request
VARIABLES
    mr_pc,        \* position of the call
    mr_given,     \* the retries argument of the outermost call
    mr_retries,   \* the retries argument of the current call
    mr_outcomes,  \* what each urlopen so far met, in order
    mr_result     \* the value returned

requestVars == <<mr_pc, mr_given, mr_retries, mr_outcomes, mr_result>>

\* a call of the legacy estimate_rent.estimate_rent; it reads market_benchmarks
\* and rental_listings
VARIABLES
    lg_pc,      \* position of the call
    lg_args,    \* the arguments of the call
    lg_comps,   \* top_comps with their distance and similarity_score
    lg_result   \* how the call ended: returned a value, or raised

legacyVars == <<lg_pc, lg_args, lg_comps, lg_result>>

\* a run of fetch_rental_comps.fetch_rentals or of hud_api.upsert_safmr_data
VARIABLES
    up_pc,         \* position of the run
    up_table,      \* the table written: rental_listings or market_benchmarks
    up_rows,       \* what happens to each row of the run, in order
    up_i,          \* index of the next row
    up_count,      \* inserted_count, or count
    up_open,       \* rows upserted in the open transaction
    up_committed,  \* rows of the run committed to the table
    up_reported    \* the count printed at the end

upsertVars == <<up_pc, up_table, up_rows, up_i, up_count, up_open, up_committed, up_reported>>

\* gis_features.get_nearby_pois and its module-level cache
VARIABLES
    poi_cache,   \* _poi_cache: cache key -> the pois stored under it
    gp_pc,       \* position of the last call
    gp_args,     \* its arguments
    gp_hit,      \* whether it was answered from the cache
    gp_result    \* what it returned

gisVars == <<poi_cache, gp_pc, gp_args, gp_hit, gp_result>>

\* a run of scraper.run_scraper
VARIABLES
    sc_pc,        \* position of the run
    sc_args,      \* args.listing_type
    sc_tasks,     \* the tasks not yet started
    sc_task,      \* the task in progress
    sc_records,   \* cleaned_records not yet processed
    sc_written,   \* rows committed by the run: table, listing type scraped, address
    sc_inserted   \* total_inserted

scraperVars == <<sc_pc, sc_args, sc_tasks, sc_task, sc_records, sc_written, sc_inserted>>

\* the state of the programs other than the estimator and the backfill
auxVars == <<requestVars, legacyVars, upsertVars, gisVars, scraperVars>>

vars == <<market_benchmarks, rental_listings, HAS_ML_MODEL, model_pkl, cached_model,
          query, pc, hud_rent, comps_result, ml_prediction, result, calls, failed,
          metadata_json, cached_metadata, callVars, backfillVars, auxVars>>

\* ------------------------------------------------------------------------
\* GeoMath
\* ------------------------------------------------------------------------
\* the meridian all modelled points lie on
Meridian == 0

\* great-circle distance of two points of one meridian, in hundredths of a mile
haversine_distance(lat1, lon1, lat2, lon2) == Abs(lat2 - lat1)

\* ------------------------------------------------------------------------
\* BenchmarkSource
\* ------------------------------------------------------------------------
StrZip(s) == [t |-> "str", s |-> s, n |-> 0]

FloatZip(n) == [t |-> "float", s |-> << >>, n |-> n]

\* truthiness of the zip_code argument
TruthyZip(z) ==
    /\ z # None
    /\ IF Val(z).t = "float" THEN Val(z).n # 0 ELSE Val(z).s # << >>

\* the "Clean zip code" step
CleanZip(zip_code) ==
    IF zip_code.t = "float" THEN IntToStr(zip_code.n)
    ELSE Strip(SplitFirst(zip_code.s, "."))

\* f"{int(bedrooms)}br"
BrKey(bedrooms) == IntToStr(bedrooms) \o <<"b", "r">>

\* dict.get(key)
DictGet(d, key) == IF key \in DOMAIN d THEN d[key] ELSE None

\* cur.fetchone() and the lookup of the bedroom key in its safmr_data; int()
\* of a None bedroom count raises TypeError, which the function catches
LookupSafmr(table, zip_code, bedrooms) ==
    LET zip == CleanZip(zip_code)
        row == IF zip \in DOMAIN table THEN Some(table[zip]) ELSE None
    IN  IF row # None /\ Val(row) # None /\ Val(Val(row)) # << >>
        THEN IF bedrooms = None THEN None
             ELSE DictGet(Val(Val(row)), BrKey(Val(bedrooms)))
        ELSE None

\* a handler that only logs the query error and goes on to read the row
get_hud_safmr_ErrorIgnored(table, conn, zip_code, bedrooms) ==
    IF conn = "refused" THEN None
    ELSE LookupSafmr(table, zip_code, bedrooms)

\* conn is "ok", "refused" (get_db_connection returns None) or "error" (the
\* query raises); table is market_benchmarks; bedrooms is Optional
get_hud_safmr(table, conn, zip_code, bedrooms) ==
    IF conn = "refused" THEN None
    ELSE IF conn = "error" THEN None
    ELSE LookupSafmr(table, zip_code, bedrooms)

\* ------------------------------------------------------------------------
\* ComparablesMatcher
\* ------------------------------------------------------------------------
\* the WHERE clause without its price > 0 condition
Where_AnyPrice(r, bedrooms, lookback_days) ==
    /\ r.latitude # None
    /\ r.longitude # None
    /\ r.price < 10000
    /\ r.bedrooms >= (IF bedrooms - 1 > 0 THEN bedrooms - 1 ELSE 0)
    /\ r.bedrooms <= bedrooms + 1
    /\ r.age_days < lookback_days

\* the WHERE clause of the rental_listings query, for one row
Where(r, bedrooms, lookback_days) ==
    /\ r.latitude # None
    /\ r.longitude # None
    /\ r.price > 0
    /\ r.price < 10000
    /\ r.bedrooms >= (IF bedrooms - 1 > 0 THEN bedrooms - 1 ELSE 0)
    /\ r.bedrooms <= bedrooms + 1
    /\ r.age_days < lookback_days

\* cur.fetchall(): the rows of the table that satisfy the WHERE clause
RECURSIVE CandidateRows(_, _, _)
CandidateRows(table, bedrooms, lookback_days) ==
    IF table = << >> THEN << >>
    ELSE (IF Where(Head(table), bedrooms, lookback_days) THEN <<Head(table)>> ELSE << >>)
         \o CandidateRows(Tail(table), bedrooms, lookback_days)

\* similarity score of a candidate at distance dist, in hundredths
Score(dist, radius_miles, same_beds) ==
    RRound(RMul(RInt(100),
                RAdd(RSub(RInt(1), Rat(dist, radius_miles)),
                     IF same_beds THEN Rat(25, 100) ELSE Rat(15, 100))))

\* the threshold at 30% of the benchmark instead of 30% below it
IsScam_BelowThirtyPercent(price, hud) ==
    TruthyNum(hud) /\ RLess(RInt(price), RMul(RInt(Val(hud)), Rat(3, 10)))

\* the scam filter: price < hud_rent * 0.7
IsScam(price, hud) == TruthyNum(hud) /\ RLess(RInt(price), RMul(RInt(Val(hud)), Rat(7, 10)))

\* the comp built from candidate c, or << >> when c is skipped
CompOf(c, lat, lon, bedrooms, radius_miles, hud) ==
    LET dist == haversine_distance(lat, lon, Val(c.latitude), Val(c.longitude))
    IN  IF dist <= radius_miles /\ ~IsScam(c.price, hud)
        THEN << [address  |-> c.address,
                 price    |-> c.price,
                 beds     |-> c.bedrooms,
                 distance |-> dist,
                 score    |-> Score(dist, radius_miles, c.bedrooms = bedrooms)] >>
        ELSE << >>

RECURSIVE CompsOf(_, _, _, _, _, _)
CompsOf(candidates, lat, lon, bedrooms, radius_miles, hud) ==
    IF candidates = << >> THEN << >>
    ELSE CompOf(Head(candidates), lat, lon, bedrooms, radius_miles, hud)
         \o CompsOf(Tail(candidates), lat, lon, bedrooms, radius_miles, hud)

\* list.sort(key=score, reverse=True): stable, descending
RECURSIVE InsertByScore(_, _)
InsertByScore(sorted, x) ==
    IF sorted = << >> THEN <<x>>
    ELSE IF Head(sorted).score >= x.score
         THEN <<Head(sorted)>> \o InsertByScore(Tail(sorted), x)
         ELSE <<x>> \o sorted

RECURSIVE SortByScore(_)
SortByScore(seq) ==
    IF seq = << >> THEN << >>
    ELSE InsertByScore(SortByScore(SubSeq(seq, 1, Len(seq) - 1)), seq[Len(seq)])

\* list.sort() of numbers, ascending
RECURSIVE InsertAsc(_, _)
InsertAsc(sorted, x) ==
    IF sorted = << >> THEN <<x>>
    ELSE IF Head(sorted) <= x
         THEN <<Head(sorted)>> \o InsertAsc(Tail(sorted), x)
         ELSE <<x>> \o sorted

RECURSIVE SortAsc(_)
SortAsc(seq) ==
    IF seq = << >> THEN << >>
    ELSE InsertAsc(SortAsc(SubSeq(seq, 1, Len(seq) - 1)), seq[Len(seq)])

\* seq[:n]
Take(seq, n) == SubSeq(seq, 1, Min(n, Len(seq)))

NoComps == [median |-> None, comps |-> << >>, count |-> 0]

\* the comps in the order they were built, cut to max_comps
TopComps_Unsorted(comps, max_comps) == Take(comps, max_comps)

\* comps.sort(key=score, reverse=True); top_comps = comps[:max_comps]
TopComps(comps, max_comps) == Take(SortByScore(comps), max_comps)

\* the lowest of the sorted prices
MedianPrice_Lowest(prices) == prices[1]

\* median_rent = prices[len(prices) // 2] of the sorted prices
MedianPrice(prices) == prices[(Len(prices) \div 2) + 1]

\* conn as for get_hud_safmr; table is rental_listings; lat and lon are Optional
get_scraped_comps(table, conn, lat, lon, bedrooms, radius_miles, max_comps, lookback_days, hud) ==
    IF conn = "refused" THEN NoComps
    ELSE IF conn = "error" THEN NoComps
    ELSE LET candidates == CandidateRows(table, bedrooms, lookback_days)
         IN  \* haversine_distance raises TypeError on a None coordinate
             IF candidates # << >> /\ (lat = None \/ lon = None) THEN NoComps
             ELSE LET comps == IF candidates = << >> THEN << >>
                               ELSE CompsOf(candidates, Val(lat), Val(lon), bedrooms,
                                            radius_miles, hud)
                      top_comps == TopComps(comps, max_comps)
                      prices == SortAsc([i \in 1..Len(top_comps) |-> top_comps[i].price])
                  IN  IF top_comps = << >> THEN NoComps
                      ELSE [median |-> Some(MedianPrice(prices)),
                            comps  |-> top_comps,
                            count  |-> Len(top_comps)]

\* ------------------------------------------------------------------------
\* ModelSource
\* ------------------------------------------------------------------------
\* predict.load_model: the model handed to the caller and the new cache
load_model(cache, pkl) ==
    IF cache # None THEN [model |-> cache, cache |-> cache]
    ELSE IF pkl = None THEN [model |-> None, cache |-> cache]
    ELSE [model |-> pkl, cache |-> pkl]

\* predict.predict_rent: the 'ml_estimate' of its result and the new cache; a
\* model is the pair of its raw predictions for the query with and without the
\* benchmark feature; raises: whether feature extraction or model.predict
\* raises in this call, in which case the result is the marker "raised"
predict_rent(cache, pkl, raises, hud) ==
    LET loaded == load_model(cache, pkl)
    IN  IF loaded.model = None
        THEN [ml_estimate |-> None, raised |-> FALSE, cache |-> loaded.cache]
        ELSE IF raises
        THEN [ml_estimate |-> None, raised |-> TRUE, cache |-> loaded.cache]
        ELSE LET prediction == IF TruthyNum(hud) THEN Val(loaded.model).with_hud
                               ELSE Val(loaded.model).without_hud
             IN  [ml_estimate |-> Some(RoundHalfEven(prediction, 25) * 25),
                  raised      |-> FALSE,
                  cache       |-> loaded.cache]

\* rent_estimator_v2.get_ml_prediction: the prediction and the new cache
get_ml_prediction(has_ml_model, cache, pkl, raises, hud) ==
    IF ~has_ml_model THEN [value |-> None, cache |-> cache]
    ELSE LET r == predict_rent(cache, pkl, raises, hud)
         IN  IF r.raised THEN [value |-> None, cache |-> r.cache]
             ELSE [value |-> r.ml_estimate, cache |-> r.cache]

\* ------------------------------------------------------------------------
\* Triangulator
\* ------------------------------------------------------------------------
Tags == <<"hud", "comps", "ml">>

W_HUD == Rat(30, 100)

W_COMPS == Rat(50, 100)

W_COMPS_FEW == Rat(30, 100)

W_ML == Rat(20, 100)

\* sum of the values of a dict keyed by source tags
RECURSIVE SumOver(_, _)
SumOver(d, i) ==
    IF i > Len(Tags) THEN RInt(0)
    ELSE RAdd(IF Tags[i] \in DOMAIN d THEN d[Tags[i]] ELSE RInt(0), SumOver(d, i + 1))

SumValues(d) == SumOver(d, 1)

\* the larger of the values of a non-empty dict
RECURSIVE MaxOver(_, _)
MaxOver(d, i) ==
    IF i > Len(Tags) THEN RInt(0)
    ELSE IF Tags[i] \in DOMAIN d THEN RMax(d[Tags[i]], MaxOver(d, i + 1))
    ELSE MaxOver(d, i + 1)

\* calculate_variance over the values of the sources dict
calculate_variance(sources) ==
    LET n == Cardinality(DOMAIN sources)
        vals == [k \in DOMAIN sources |-> RInt(sources[k])]
    IN  IF n < 2 THEN RInt(0)
        ELSE LET mean == RDiv(SumValues(vals), RInt(n))
             IN  IF mean[1] = 0 THEN RInt(0)
                 ELSE LET diffs == [k \in DOMAIN sources |-> RAbs(RSub(vals[k], mean))]
                      IN  RMul(RDiv(MaxOver(diffs, 1), mean), RInt(100))

\* the comps branch without its elif for one or two comps
Contributes_CompsNeedThree(t, hud, comps, ml) ==
    CASE t = "hud"   -> TruthyNum(hud) /\ Val(hud) > 0
      [] t = "comps" -> TruthyNum(comps.median) /\ comps.count >= 3
      [] t = "ml"    -> TruthyNum(ml) /\ Val(ml) > 0

\* step 5: the conditions under which a source enters weights and sources
Contributes(t, hud, comps, ml) ==
    CASE t = "hud"   -> TruthyNum(hud) /\ Val(hud) > 0
      [] t = "comps" -> TruthyNum(comps.median) /\ comps.count >= 1
      [] t = "ml"    -> TruthyNum(ml) /\ Val(ml) > 0

\* step 5: the sources dict
SourcesOf(hud, comps, ml) ==
    [t \in {u \in {"hud", "comps", "ml"} : Contributes(u, hud, comps, ml)} |->
        CASE t = "hud"   -> Val(hud)
          [] t = "comps" -> Val(comps.median)
          [] t = "ml"    -> Val(ml)]

\* the same weight for any number of comps
BaseWeight_NoFewComps(t, comp_count) ==
    CASE t = "hud"   -> W_HUD
      [] t = "comps" -> W_COMPS
      [] t = "ml"    -> W_ML

\* step 5: the base weight of a contributing source
BaseWeight(t, comp_count) ==
    CASE t = "hud"   -> W_HUD
      [] t = "comps" -> IF comp_count >= 3 THEN W_COMPS ELSE W_COMPS_FEW
      [] t = "ml"    -> W_ML

\* the weights left as they are
Normalize_Skipped(weights) == weights

\* step 5: "Dynamic weight adjustment if sources missing"
Normalize(weights) ==
    LET total_weight == SumValues(weights)
    IN  IF RLess(RInt(0), total_weight) /\ total_weight # RInt(1)
        THEN [k \in DOMAIN weights |-> RDiv(weights[k], total_weight)]
        ELSE weights

\* the base weights used as they are
WeightsOf_Raw(sources, comp_count) ==
    [k \in DOMAIN sources |-> BaseWeight(k, comp_count)]

\* step 5: the weights dict after the adjustment
WeightsOf(sources, comp_count) ==
    Normalize([k \in DOMAIN sources |-> BaseWeight(k, comp_count)])

\* '_'.join(parts)
RECURSIVE Join(_)
Join(parts) ==
    IF parts = << >> THEN ""
    ELSE IF Len(parts) = 1 THEN parts[1]
    ELSE parts[1] \o "_" \o Join(Tail(parts))

\* the tags of the contributing sources in the order hud, comps, ml
MethodParts(sources) ==
    (IF "hud" \in DOMAIN sources THEN <<"hud">> ELSE << >>)
    \o (IF "comps" \in DOMAIN sources THEN <<"comps">> ELSE << >>)
    \o (IF "ml" \in DOMAIN sources THEN <<"ml">> ELSE << >>)

\* the prefix given to a single source too
MethodName_AlwaysTriangulated(sources) ==
    LET method_parts == MethodParts(sources)
    IN  IF Len(method_parts) >= 1 THEN "triangulated_" \o Join(method_parts)
        ELSE "unknown"

MethodName(sources) ==
    LET method_parts == MethodParts(sources)
    IN  IF Len(method_parts) > 1 THEN "triangulated_" \o Join(method_parts)
        ELSE IF method_parts # << >> THEN method_parts[1]
        ELSE "unknown"

\* the comps term without its cap at 0.50
BaseConfidence_Unsaturated(sources, comp_count) ==
    RAdd(RAdd(IF "hud" \in DOMAIN sources THEN Rat(25, 100) ELSE RInt(0),
              IF "comps" \in DOMAIN sources
              THEN RMul(Rat(comp_count, 5), Rat(50, 100))
              ELSE RInt(0)),
         IF "ml" \in DOMAIN sources THEN Rat(15, 100) ELSE RInt(0))

\* step 7: confidence before the variance penalty
BaseConfidence(sources, comp_count) ==
    RAdd(RAdd(IF "hud" \in DOMAIN sources THEN Rat(25, 100) ELSE RInt(0),
              IF "comps" \in DOMAIN sources
              THEN RMin(Rat(50, 100), RMul(Rat(comp_count, 5), Rat(50, 100)))
              ELSE RInt(0)),
         IF "ml" \in DOMAIN sources THEN Rat(15, 100) ELSE RInt(0))

\* the RentEstimate dataclass with its defaults
RentEstimate(estimated_rent, confidence_score, method) ==
    [estimated_rent   |-> estimated_rent,
     confidence_score |-> confidence_score,
     method           |-> method,
     hud_fmr          |-> None,
     comps_median     |-> None,
     ml_prediction    |-> None,
     comp_count       |-> 0,
     comps            |-> None,
     property_type    |-> None,
     reason           |-> None,
     variance_pct     |-> None,
     weights_used     |-> None]

\* the confidence of the insufficient-data result
NonRentableResult_LowConfidence(property_type) ==
    [RentEstimate(0, Rat(1, 10), "non_rentable_property_type") EXCEPT
        !.property_type = property_type,
        !.reason = Some("Property type indicates no rentable structure")]

\* step 1: the result for a non-rentable property type
NonRentableResult(property_type) ==
    [RentEstimate(0, RInt(1), "non_rentable_property_type") EXCEPT
        !.property_type = property_type,
        !.reason = Some("Property type indicates no rentable structure")]

\* step 6: the result when no source contributes
InsufficientDataResult ==
    [RentEstimate(0, Rat(1, 10), "insufficient_data") EXCEPT
        !.comp_count = 0,
        !.comps = Some(<< >>),
        !.reason = Some("No HUD, comp, or ML data available")]

\* the constructor call without its comp_count argument
BlendedResult_NoCompCount(estimated_rent, confidence, method, property_type, hud, comps, ml, variance_pct, weights) ==
    [RentEstimate(RRound(estimated_rent), RMin(confidence, RInt(1)), method) EXCEPT
        !.hud_fmr = hud,
        !.comps_median = comps.median,
        !.ml_prediction = ml,
        !.comps = Some(comps.comps),
        !.property_type = property_type,
        !.variance_pct = IF variance_pct[1] # 0
                         THEN Some(Rat(RRound(RMul(variance_pct, RInt(10))), 10))
                         ELSE None,
        !.weights_used = Some(weights)]

\* the RentEstimate returned for a blend
BlendedResult(estimated_rent, confidence, method, property_type, hud, comps, ml, variance_pct, weights) ==
    [RentEstimate(RRound(estimated_rent), RMin(confidence, RInt(1)), method) EXCEPT
        !.hud_fmr = hud,
        !.comps_median = comps.median,
        !.ml_prediction = ml,
        !.comp_count = comps.count,
        !.comps = Some(comps.comps),
        !.property_type = property_type,
        !.variance_pct = IF variance_pct[1] # 0
                         THEN Some(Rat(RRound(RMul(variance_pct, RInt(10))), 10))
                         ELSE None,
        !.weights_used = Some(weights)]

\* the plain mean of the source values
WeightedSum_Unweighted(sources, weights) ==
    RDiv(SumValues([k \in DOMAIN sources |-> RInt(sources[k])]),
         RInt(Cardinality(DOMAIN sources)))

\* step 6: sum(sources[k] * weights[k] for k in sources)
WeightedSum(sources, weights) ==
    SumValues([k \in DOMAIN sources |-> RMul(RInt(sources[k]), weights[k])])

\* the penalty applied from 25 percent on
Penalty_AtThreshold(confidence, variance_pct) ==
    IF ~RLess(variance_pct, RInt(25)) THEN RMul(confidence, Rat(8, 10)) ELSE confidence

\* step 7: if variance_pct > 25: confidence *= 0.8
Penalty(confidence, variance_pct) ==
    IF RLess(RInt(25), variance_pct) THEN RMul(confidence, Rat(8, 10)) ELSE confidence

\* steps 5 to 8 of estimate_rent_v2
Blend(property_type, hud, comps, ml) ==
    LET sources == SourcesOf(hud, comps, ml)
        weights == WeightsOf(sources, comps.count)
    IN  IF DOMAIN sources = {} THEN InsufficientDataResult
        ELSE LET estimated_rent == WeightedSum(sources, weights)
                 confidence == BaseConfidence(sources, comps.count)
                 variance_pct == calculate_variance(sources)
                 penalised == Penalty(confidence, variance_pct)
             IN  BlendedResult(estimated_rent, penalised, MethodName(sources),
                               property_type, hud, comps, ml, variance_pct, weights)

\* RentEstimate.to_dict()['comps']: self.comps or []
ToDictComps(r) == IF r.comps = None THEN << >> ELSE Val(r.comps)

\* ------------------------------------------------------------------------
\* estimate_rent_v2, step by step
\* ------------------------------------------------------------------------
MAX_COMPS == 15

LOOKBACK_DAYS == 90

RADIUS_MILES == 200

\* bedrooms or 3
BedroomsOr3(bedrooms) == IF TruthyNum(bedrooms) THEN Val(bedrooms) ELSE 3

Conns == {"ok", "refused", "error"}

\* the guard without its bedrooms conjunct
QueriesHud_ZipOnly(q) == TruthyZip(q.zip_code)

\* step 2 guard: if zip_code and bedrooms
QueriesHud(q) == TruthyZip(q.zip_code) /\ TruthyNum(q.bedrooms)

HudOf(q, table, conn) ==
    IF QueriesHud(q) THEN get_hud_safmr(table, conn, Val(q.zip_code), q.bedrooms)
    ELSE None

CompsOfQuery(q, table, conn, hud) ==
    get_scraped_comps(table, conn, q.lat, q.lon, BedroomsOr3(q.bedrooms),
                      q.radius_miles, MAX_COMPS, LOOKBACK_DAYS, hud)

\* the whole call as a function of its inputs and of the faults met
EstimateRentV2(q, benchmarks, rentals, has_ml_model, cache, pkl, hud_conn, comps_conn, raises) ==
    IF is_non_rentable(q.property_type) THEN NonRentableResult(q.property_type)
    ELSE LET hud == HudOf(q, benchmarks, hud_conn)
             comps == CompsOfQuery(q, rentals, comps_conn, hud)
             ml == get_ml_prediction(has_ml_model, cache, pkl, raises, hud).value
         IN  Blend(q.property_type, hud, comps, ml)

\* the gate building its result without returning it
Classify_NoReturn ==
    /\ pc = "start"
    /\ IF is_non_rentable(query.property_type)
       THEN result' = Some(NonRentableResult(query.property_type))
       ELSE result' = result
    /\ pc' = "hud"
    /\ UNCHANGED <<market_benchmarks, rental_listings, HAS_ML_MODEL, model_pkl,
                   cached_model, query, hud_rent, comps_result, ml_prediction,
                   calls, failed>>
    /\ UNCHANGED <<metadata_json, cached_metadata, callVars, backfillVars, auxVars>>

\* step 1
Classify ==
    /\ pc = "start"
    /\ IF is_non_rentable(query.property_type)
       THEN /\ result' = Some(NonRentableResult(query.property_type))
            /\ pc' = "done"
       ELSE /\ result' = result
            /\ pc' = "hud"
    /\ UNCHANGED <<market_benchmarks, rental_listings, HAS_ML_MODEL, model_pkl,
                   cached_model, query, hud_rent, comps_result, ml_prediction,
                   calls, failed>>
    /\ UNCHANGED <<metadata_json, cached_metadata, callVars, backfillVars, auxVars>>

\* step 2
FetchHud ==
    /\ pc = "hud"
    /\ IF QueriesHud(query)
       THEN \E conn \in Conns :
               /\ hud_rent' = HudOf(query, market_benchmarks, conn)
               /\ calls' = Append(calls, "hud")
               /\ failed' = IF conn = "ok" THEN failed ELSE failed \cup {"hud"}
       ELSE /\ hud_rent' = None
            /\ UNCHANGED <<calls, failed>>
    /\ pc' = "comps"
    /\ UNCHANGED <<market_benchmarks, rental_listings, HAS_ML_MODEL, model_pkl,
                   cached_model, query, comps_result, ml_prediction, result>>
    /\ UNCHANGED <<metadata_json, cached_metadata, callVars, backfillVars, auxVars>>

\* step 3
FetchComps ==
    /\ pc = "comps"
    /\ \E conn \in Conns :
          /\ comps_result' = CompsOfQuery(query, rental_listings, conn, hud_rent)
          /\ failed' = IF conn = "ok" THEN failed ELSE failed \cup {"comps"}
    /\ calls' = Append(calls, "comps")
    /\ pc' = "ml"
    /\ UNCHANGED <<market_benchmarks, rental_listings, HAS_ML_MODEL, model_pkl,
                   cached_model, query, hud_rent, ml_prediction, result>>
    /\ UNCHANGED <<metadata_json, cached_metadata, callVars, backfillVars, auxVars>>

\* step 4
Predict ==
    /\ pc = "ml"
    /\ IF HAS_ML_MODEL
       THEN \E raises \in BOOLEAN :
               LET r == get_ml_prediction(TRUE, cached_model, model_pkl, raises, hud_rent)
               IN  /\ raises => r.cache # None
                   /\ ml_prediction' = r.value
                   /\ cached_model' = r.cache
                   /\ failed' = IF raises \/ r.cache = None
                                THEN failed \cup {"ml"} ELSE failed
                   /\ calls' = Append(calls, "ml")
       ELSE /\ ml_prediction' = None
            /\ failed' = failed \cup {"ml"}
            /\ UNCHANGED <<cached_model, calls>>
    /\ pc' = "blend"
    /\ UNCHANGED <<market_benchmarks, rental_listings, HAS_ML_MODEL, model_pkl,
                   query, hud_rent, comps_result, result>>
    /\ cached_metadata' = IF cached_model = None /\ cached_model' # None
                        THEN metadata_json ELSE cached_metadata
    /\ UNCHANGED <<metadata_json, callVars, backfillVars, auxVars>>

\* steps 5 to 8
Triangulate ==
    /\ pc = "blend"
    /\ result' = Some(Blend(query.property_type, hud_rent, comps_result, ml_prediction))
    /\ pc' = "done"
    /\ UNCHANGED <<market_benchmarks, rental_listings, HAS_ML_MODEL, model_pkl,
                   cached_model, query, hud_rent, comps_result, ml_prediction,
                   calls, failed>>
    /\ UNCHANGED <<metadata_json, cached_metadata, callVars, backfillVars, auxVars>>

\* ------------------------------------------------------------------------
\* Concurrent calls of predict_rent
\* ------------------------------------------------------------------------
\* number of concurrent calls
NumCallers == 2

Callers == 1..NumCallers

get_feature_names ==
    <<"bedrooms", "bathrooms", "sqft", "year_built", "age", "sqft_per_bed",
      "bath_bed_ratio", "latitude", "longitude", "lot_sqft", "lot_to_sqft_ratio",
      "has_garage", "has_ac", "has_pool", "pet_friendly", "is_single_family",
      "is_townhouse", "is_condo", "is_multi_family">>

extended_features ==
    get_feature_names \o <<"hud_fmr", "has_hud_data", "median_income", "rent_to_income_ratio">>

\* metadata of a model trained on the property features only
BaseMetadata == [feature_names |-> get_feature_names]

\* metadata of a model trained on the property and market features; the
\* single call of estimate_rent_v2 above runs with this metadata
MarketMetadata == [feature_names |-> extended_features]

\* metadata.get('feature_names', feature_names) if metadata else feature_names
trained_features(metadata) ==
    IF metadata # None /\ "feature_names" \in DOMAIN Val(metadata)
    THEN Val(metadata).feature_names
    ELSE get_feature_names

\* model.predict(X)[0]: the benchmark enters X only as a trained feature
ModelPredict(model, metadata, hud) ==
    IF TruthyNum(hud)
       /\ \E i \in 1..Len(trained_features(metadata)) : trained_features(metadata)[i] = "hud_fmr"
    THEN model.with_hud
    ELSE model.without_hud

\* the 'ml_estimate' of predict_rent for the pair load_model returned
MlEstimate(model, metadata, hud) ==
    IF model = None THEN None
    ELSE Some(RoundHalfEven(ModelPredict(Val(model), metadata, hud), 25) * 25)

NoCallers ==
    /\ call_pc = [p \in Callers |-> "idle"]
    /\ call_model = [p \in Callers |-> None]
    /\ call_meta = [p \in Callers |-> None]
    /\ call_ml = [p \in Callers |-> None]

\* load_model: the cache test, and the test for the artifact
LoadModelCheck ==
    \E p \in Callers :
        /\ call_pc[p] = "start"
        /\ IF cached_model # None
           THEN /\ call_model' = [call_model EXCEPT ![p] = cached_model]
                /\ call_meta' = [call_meta EXCEPT ![p] = cached_metadata]
                /\ call_pc' = [call_pc EXCEPT ![p] = "predict"]
           ELSE IF model_pkl = None
           THEN /\ call_model' = [call_model EXCEPT ![p] = None]
                /\ call_meta' = [call_meta EXCEPT ![p] = None]
                /\ call_pc' = [call_pc EXCEPT ![p] = "predict"]
           ELSE /\ call_pc' = [call_pc EXCEPT ![p] = "pickle"]
                /\ UNCHANGED <<call_model, call_meta>>
        /\ UNCHANGED <<market_benchmarks, rental_listings, HAS_ML_MODEL, model_pkl,
                       cached_model, query, pc, hud_rent, comps_result, ml_prediction,
                       result, calls, failed, metadata_json, cached_metadata, call_ml,
                       backfillVars, auxVars>>

\* load_model: _cached_model = pickle.load(f)
LoadModelPickle ==
    \E p \in Callers :
        /\ call_pc[p] = "pickle"
        /\ cached_model' = model_pkl
        /\ call_pc' = [call_pc EXCEPT ![p] = "metadata"]
        /\ UNCHANGED <<market_benchmarks, rental_listings, HAS_ML_MODEL, model_pkl,
                       query, pc, hud_rent, comps_result, ml_prediction, result, calls,
                       failed, metadata_json, cached_metadata, call_model, call_meta,
                       call_ml, backfillVars, auxVars>>

\* load_model: _cached_metadata = json.load(f) if the file exists, and the
\* return of the two globals
LoadModelMetadata ==
    \E p \in Callers :
        /\ call_pc[p] = "metadata"
        /\ cached_metadata' = IF metadata_json # None THEN metadata_json
                              ELSE cached_metadata
        /\ call_model' = [call_model EXCEPT ![p] = cached_model]
        /\ call_meta' = [call_meta EXCEPT ![p] = cached_metadata']
        /\ call_pc' = [call_pc EXCEPT ![p] = "predict"]
        /\ UNCHANGED <<market_benchmarks, rental_listings, HAS_ML_MODEL, model_pkl,
                       cached_model, query, pc, hud_rent, comps_result, ml_prediction,
                       result, calls, failed, metadata_json, call_ml, backfillVars, auxVars>>

\* predict_rent after load_model
PredictRent ==
    \E p \in Callers :
        /\ call_pc[p] = "predict"
        /\ call_ml' = [call_ml EXCEPT ![p] = MlEstimate(call_model[p], call_meta[p], hud_rent)]
        /\ call_pc' = [call_pc EXCEPT ![p] = "done"]
        /\ UNCHANGED <<market_benchmarks, rental_listings, HAS_ML_MODEL, model_pkl,
                       cached_model, query, pc, hud_rent, comps_result, ml_prediction,
                       result, calls, failed, metadata_json, cached_metadata,
                       call_model, call_meta, backfillVars, auxVars>>

\* ------------------------------------------------------------------------
\* backfill_rent
\* ------------------------------------------------------------------------
\* number of rows of listings
MaxListings == 3

ListingIds == 1..MaxListings

\* batch_size, scaled to the table
BatchSize == 2

NoBackfill ==
    /\ listings = << >>
    /\ bf_pc = "count"
    /\ bf_ids = {}

\* the WHERE clause of the count and of the batch SELECT, for one row
NeedsRent(row) ==
    /\ (row.estimated_rent = None \/ row.estimated_rent = Some(0))
    /\ row.listing_status = "FOR_SALE"
    /\ row.latitude # None
    /\ row.longitude # None

Pending == {id \in DOMAIN listings : NeedsRent(listings[id])}

\* results of calculate_smart_rent(...)->>'active_estimate': NULL, 0 or a rent
SmartRents == {None, Some(0), Some(1400)}

\* COALESCE(x, -1)
Coalesce(x) == IF x = None THEN Some(-1) ELSE x

estimatorVars ==
    <<market_benchmarks, rental_listings, HAS_ML_MODEL, model_pkl, cached_model,
      query, pc, hud_rent, comps_result, ml_prediction, result, calls, failed,
      metadata_json, cached_metadata, callVars>>

\* the count of rows needing update; with none the daemon sleeps and retries
BackfillCount ==
    /\ bf_pc = "count"
    /\ bf_pc' = IF Pending = {} THEN "count" ELSE "select"
    /\ UNCHANGED <<listings, bf_ids, estimatorVars, auxVars>>

\* SELECT id ... LIMIT batch_size: any batch_size of the rows needing update
BackfillSelect ==
    /\ bf_pc = "select"
    /\ \E rows \in SUBSET Pending :
          /\ Cardinality(rows) = Min(BatchSize, Cardinality(Pending))
          /\ bf_ids' = rows
          /\ bf_pc' = IF rows = {} THEN "count" ELSE "update"
    /\ UNCHANGED <<listings, estimatorVars, auxVars>>

\* UPDATE listings SET estimated_rent = COALESCE(..., -1) WHERE id = ANY(ids)
BackfillUpdate ==
    /\ bf_pc = "update"
    /\ \E smart \in [bf_ids -> SmartRents] :
          listings' = [id \in DOMAIN listings |->
                          IF id \in bf_ids
                          THEN [listings[id] EXCEPT !.estimated_rent = Coalesce(smart[id])]
                          ELSE listings[id]]
    /\ bf_pc' = "select"
    /\ UNCHANGED <<bf_ids, estimatorVars, auxVars>>

\* an exception in the loop, or the daemon killed and started again
BackfillRestart ==
    /\ bf_pc # "count"
    /\ bf_pc' = "count"
    /\ bf_ids' = {}
    /\ UNCHANGED <<listings, estimatorVars, auxVars>>

\* another writer of listings.estimated_rent (the trigger announced in
\* scraper.py, or a second daemon) storing an estimate for a row without one
OtherWriter ==
    /\ \E id \in DOMAIN listings :
          /\ listings[id].estimated_rent \in {None, Some(0)}
          /\ listings' = [listings EXCEPT ![id].estimated_rent = Some(1500)]
    /\ UNCHANGED <<bf_pc, bf_ids, estimatorVars, auxVars>>

\* ------------------------------------------------------------------------
\* enrich_data.make_request
\* ------------------------------------------------------------------------
\* largest retries argument
MaxRetries == 3

\* urlopen returned a 2xx response whose body is JSON or not
Response(is_json) == [kind |-> "response", code |-> 200, is_json |-> is_json]

\* urlopen raised urllib.error.HTTPError
HTTPError(code) == [kind |-> "HTTPError", code |-> code, is_json |-> FALSE]

\* urlopen raised a timeout (socket.timeout, URLError), which is no HTTPError
TimedOut == [kind |-> "timeout", code |-> 0, is_json |-> FALSE]

Outcomes ==
    {Response(TRUE), Response(FALSE), TimedOut}
    \cup {HTTPError(c) : c \in {429, 502, 503, 504, 404, 500}}

\* e.code in [429, 504, 502, 503] and retries > 0
Retried(o, retries) ==
    o.kind = "HTTPError" /\ o.code \in {429, 504, 502, 503} /\ retries > 0

NoRequest ==
    /\ mr_pc = "idle"
    /\ mr_given = 0
    /\ mr_retries = 0
    /\ mr_outcomes = << >>
    /\ mr_result = None

\* one call of make_request: the request, and either its return or the
\* recursive call with retries - 1, whose value is returned as it is
MakeRequest ==
    /\ mr_pc = "call"
    /\ \E o \in Outcomes :
          /\ mr_outcomes' = Append(mr_outcomes, o)
          /\ IF o.kind = "response" /\ o.is_json
             THEN /\ mr_result' = Some("json")
                  /\ mr_pc' = "returned"
                  /\ UNCHANGED mr_retries
             ELSE IF Retried(o, mr_retries)
             THEN /\ mr_retries' = mr_retries - 1
                  /\ UNCHANGED <<mr_pc, mr_result>>
             ELSE /\ mr_result' = None
                  /\ mr_pc' = "returned"
                  /\ UNCHANGED mr_retries
    /\ UNCHANGED <<mr_given, estimatorVars, backfillVars, legacyVars, upsertVars, gisVars, scraperVars>>

\* ------------------------------------------------------------------------
\* estimate_rent.estimate_rent, the legacy scorer
\* ------------------------------------------------------------------------
\* Bathroom counts are in half baths, so that a delta of 0.5 is 1.

\* the radius argument, 1.5 miles
LEGACY_RADIUS == 150

\* comps[:10]
LEGACY_TOP == 10

\* estimate_rent.get_safmr_rent: the ZIP is cut at the first "." and not stripped
get_safmr_rent(table, zip_code, bedrooms) ==
    LET zip == IF zip_code.t = "float" THEN IntToStr(zip_code.n)
               ELSE SplitFirst(zip_code.s, ".")
        row == IF zip \in DOMAIN table THEN Some(table[zip]) ELSE None
    IN  IF row # None /\ Val(row) # None THEN DictGet(Val(Val(row)), BrKey(bedrooms))
        ELSE None

\* the factor of the bedroom comparison
BedFactor(c, args) ==
    IF TruthyNum(args.beds) /\ c.bedrooms # Val(args.beds) THEN Rat(85, 100) ELSE RInt(1)

\* the factor of the bathroom comparison
BathFactor(c, args) ==
    IF TruthyNum(args.baths) /\ TruthyNum(c.bathrooms)
       /\ Abs(Val(c.bathrooms) - Val(args.baths)) > 1
    THEN Rat(9, 10) ELSE RInt(1)

\* the factors of the sqft comparison: two ifs, one after the other
SqftFactor(c, args) ==
    IF TruthyNum(args.sqft) /\ TruthyNum(c.sqft)
    THEN LET sqft_diff == Rat(Abs(Val(c.sqft) - Val(args.sqft)), Val(args.sqft))
         IN  RMul(IF RLess(Rat(2, 10), sqft_diff) THEN Rat(9, 10) ELSE RInt(1),
                  IF RLess(Rat(5, 10), sqft_diff) THEN Rat(8, 10) ELSE RInt(1))
    ELSE RInt(1)

\* the factors of the year-built comparison: two ifs, one after the other
YearFactor(c, args) ==
    IF TruthyNum(args.year_built) /\ TruthyNum(c.raw_data.year_built)
    THEN LET diff == Abs(Val(c.raw_data.year_built) - Val(args.year_built))
         IN  RMul(IF diff > 15 THEN Rat(9, 10) ELSE RInt(1),
                  IF diff > 30 THEN Rat(85, 100) ELSE RInt(1))
    ELSE RInt(1)

\* the similarity score of candidate c at distance dist
LegacyScore(c, dist, args) ==
    RMul(RMul(RMul(RMul(RSub(RInt(1), Rat(dist, args.radius)), BedFactor(c, args)),
                   BathFactor(c, args)),
              SqftFactor(c, args)),
         YearFactor(c, args))

\* query.gte("bedrooms", beds - 1).lte("bedrooms", beds + 1) if beds
LegacyCandidate(c, args) ==
    TruthyNum(args.beds) =>
        (c.bedrooms >= Val(args.beds) - 1 /\ c.bedrooms <= Val(args.beds) + 1)

\* the loop over the candidates: the comps within the radius with their
\* distance and similarity_score
RECURSIVE LegacyComps(_, _)
LegacyComps(table, args) ==
    IF table = << >> THEN << >>
    ELSE LET c == Head(table)
             dist == haversine_distance(args.lat, args.lon, Val(c.latitude), Val(c.longitude))
         IN  (IF LegacyCandidate(c, args) /\ c.latitude # None /\ c.longitude # None
                 /\ dist <= args.radius
              THEN <<[row |-> c, distance |-> dist,
                      similarity_score |-> LegacyScore(c, dist, args)]>>
              ELSE << >>)
             \o LegacyComps(Tail(table), args)

\* comps.sort(key=similarity_score, reverse=True): stable, descending
RECURSIVE LegacyInsert(_, _)
LegacyInsert(sorted, x) ==
    IF sorted = << >> THEN <<x>>
    ELSE IF ~RLess(Head(sorted).similarity_score, x.similarity_score)
         THEN <<Head(sorted)>> \o LegacyInsert(Tail(sorted), x)
         ELSE <<x>> \o sorted

RECURSIVE LegacySort(_)
LegacySort(seq) ==
    IF seq = << >> THEN << >>
    ELSE LegacyInsert(LegacySort(SubSeq(seq, 1, Len(seq) - 1)), seq[Len(seq)])

RECURSIVE SumScores(_)
SumScores(comps) ==
    IF comps = << >> THEN RInt(0)
    ELSE RAdd(Head(comps).similarity_score, SumScores(Tail(comps)))

RECURSIVE SumWeightedPrices(_)
SumWeightedPrices(comps) ==
    IF comps = << >> THEN RInt(0)
    ELSE RAdd(RMul(RInt(Head(comps).row.price), Head(comps).similarity_score),
              SumWeightedPrices(Tail(comps)))

Returned(value) == [status |-> "returned", value |-> value]

\* the division by a total_score of 0 raises ZeroDivisionError
Raised == [status |-> "raised", value |-> None]

\* the entry of a comp in the returned dict
LegacyCompOut(c) ==
    [address  |-> c.row.address,
     price    |-> c.row.price,
     distance |-> c.distance,
     score    |-> Rat(RRound(RMul(c.similarity_score, RInt(100))), 100),
     sqft     |-> c.row.sqft,
     beds     |-> c.row.bedrooms,
     baths    |-> c.row.bathrooms]

\* what estimate_rent returns or raises for its top comps
LegacyResult(top_comps, safmr_rent) ==
    IF top_comps = << >>
    THEN IF TruthyNum(safmr_rent)
         THEN Returned(Some([estimated_rent   |-> Val(safmr_rent),
                             confidence_score |-> Rat(5, 10),
                             comps_used       |-> 0,
                             safmr_rent       |-> safmr_rent,
                             comps            |-> << >>]))
         ELSE Returned(None)
    ELSE LET total_score == SumScores(top_comps)
         IN  IF total_score[1] = 0 THEN Raised
             ELSE Returned(Some(
                      [estimated_rent   |-> RRound(RDiv(SumWeightedPrices(top_comps), total_score)),
                       confidence_score |-> RMin(Rat(Len(top_comps), 5), RInt(1)),
                       comps_used       |-> Len(top_comps),
                       safmr_rent       |-> safmr_rent,
                       comps            |-> [i \in 1..Len(top_comps) |->
                                                LegacyCompOut(top_comps[i])]]))

NoLegacy ==
    /\ lg_pc = "idle"
    /\ lg_args = << >>
    /\ lg_comps = << >>
    /\ lg_result = Returned(None)

\* the whole call of estimate_rent
EstimateRent ==
    /\ lg_pc = "call"
    /\ LET safmr_rent == IF TruthyZip(lg_args.zip_code) /\ TruthyNum(lg_args.beds)
                         THEN get_safmr_rent(market_benchmarks, Val(lg_args.zip_code),
                                             Val(lg_args.beds))
                         ELSE None
           top_comps == Take(LegacySort(LegacyComps(rental_listings, lg_args)), LEGACY_TOP)
       IN  /\ lg_comps' = top_comps
           /\ lg_result' = LegacyResult(top_comps, safmr_rent)
    /\ lg_pc' = "done"
    /\ UNCHANGED <<lg_args, estimatorVars, backfillVars, requestVars, upsertVars, gisVars, scraperVars>>

\* ------------------------------------------------------------------------
\* fetch_rentals and upsert_safmr_data: row upserts in one transaction
\* ------------------------------------------------------------------------
\* what a row of the run meets: "skip" (process_rental returns None; an item
\* that is no dict, has no zip_code or no Two-Bedroom rent), "ok" (the upsert
\* is executed) or "fail" (cursor.execute raises)
RowKinds == {"skip", "ok", "fail"}

NoUpsert ==
    /\ up_pc = "idle"
    /\ up_table = "rental_listings"
    /\ up_rows = << >>
    /\ up_i = 1
    /\ up_count = 0
    /\ up_open = {}
    /\ up_committed = {}
    /\ up_reported = None

\* one iteration of the loop over the rows
UpsertRow ==
    /\ up_pc = "loop"
    /\ up_i <= Len(up_rows)
    /\ CASE up_rows[up_i] = "skip" -> UNCHANGED <<up_count, up_open>>
         [] up_rows[up_i] = "ok"   -> /\ up_open' = up_open \cup {up_i}
                                      /\ up_count' = up_count + 1
         [] up_rows[up_i] = "fail" -> \* conn.rollback()
                                      /\ up_open' = {}
                                      /\ UNCHANGED up_count
    /\ up_i' = up_i + 1
    /\ UNCHANGED <<up_pc, up_table, up_rows, up_committed, up_reported>>
    /\ UNCHANGED <<estimatorVars, backfillVars, requestVars, legacyVars, gisVars, scraperVars>>

\* conn.commit() after the loop, which may raise, and the count printed
UpsertCommit ==
    /\ up_pc = "loop"
    /\ up_i > Len(up_rows)
    /\ \E committed \in BOOLEAN :
          /\ up_committed' = IF committed THEN up_open ELSE {}
          \* a raising commit is caught by the outer except
          /\ up_pc' = IF committed THEN "done" ELSE "failed"
    /\ up_open' = {}
    /\ up_reported' = Some(up_count)
    /\ UNCHANGED <<up_table, up_rows, up_i, up_count>>
    /\ UNCHANGED <<estimatorVars, backfillVars, requestVars, legacyVars, gisVars, scraperVars>>

\* ------------------------------------------------------------------------
\* gis_features.get_nearby_pois
\* ------------------------------------------------------------------------
\* Positions lie on one meridian, in ten-thousandths of a degree of latitude;
\* distance_miles is kept in hundredths of a mile.

\* metres in one ten-thousandth of a degree of latitude
METERS_PER_UNIT == 11

\* hundredths of a mile in one hundred ten-thousandths of a degree
MILES_PER_100_UNITS == 69

\* round(lat, 3): the nearest thousandth of a degree, ties to even
Round3(lat) ==
    LET q == lat \div 10
        r == lat % 10
    IN  IF r < 5 THEN 10 * q
        ELSE IF r > 5 THEN 10 * (q + 1)
        ELSE IF q % 2 = 0 THEN 10 * q ELSE 10 * (q + 1)

\* cache_key: the query point rounded to a thousandth of a degree, and the radius
cache_key(lat, radius_meters) == <<Round3(lat), radius_meters>>

\* the elements OpenStreetMap holds, in the order the server lists them
Elements ==
    << [name |-> "Lincoln School", lat |-> -9, tag |-> "school"],
       [name |-> "Oak Park",       lat |-> 12, tag |-> "park"],
       [name |-> "Elm School",     lat |-> 2,  tag |-> "school"],
       [name |-> "Corner Market",  lat |-> 21, tag |-> "supermarket"],
       [name |-> "Unknown",        lat |-> 16, tag |-> "bench"] >>

\* round(haversine_distance(...), 2)
distance_miles(lat, elem_lat) == RoundHalfEven(Abs(elem_lat - lat) * MILES_PER_100_UNITS, 100)

\* the around: filter of the Overpass query
Around(lat, radius_meters) ==
    SelectSeq(Elements, LAMBDA e : Abs(e.lat - lat) * METERS_PER_UNIT <= radius_meters)

Categories == {"schools", "grocery", "parks"}

CategoryOf(tag) ==
    CASE tag = "school" -> "schools"
      [] tag \in {"supermarket", "grocery"} -> "grocery"
      [] tag = "park" -> "parks"
      [] OTHER -> "none"

poi_data(lat, e) == [name |-> e.name, distance_miles |-> distance_miles(lat, e.lat), lat |-> e.lat]

\* list.sort(key = distance_miles): a stable sort
RECURSIVE PoiSort(_)
PoiSort(seq) ==
    IF seq = << >> THEN << >>
    ELSE LET sorted == PoiSort(SubSeq(seq, 1, Len(seq) - 1))
             x == seq[Len(seq)]
             before == SelectSeq(sorted, LAMBDA y : y.distance_miles <= x.distance_miles)
             after == SelectSeq(sorted, LAMBDA y : y.distance_miles > x.distance_miles)
         IN  before \o <<x>> \o after

\* the pois parsed from a successful query at the point
ParsePois(lat, radius_meters) ==
    [c \in Categories |->
        LET of_c == SelectSeq(Around(lat, radius_meters), LAMBDA e : CategoryOf(e.tag) = c)
        IN  PoiSort([i \in 1..Len(of_c) |-> poi_data(lat, of_c[i])])]

\* what a failed query makes the call return: {}
NoPois == << >>

NoGis ==
    /\ poi_cache = << >>
    /\ gp_pc = "idle"
    /\ gp_args = [lat |-> 0, radius_meters |-> 0]
    /\ gp_hit = FALSE
    /\ gp_result = NoPois

\* the query points and radii of the calls
QueryLats == {0, 4, 6, 14}

QueryRadii == {100, 200}

\* one call of get_nearby_pois; query_ok is whether query_overpass answers
GetNearbyPois ==
    \E lat \in QueryLats, radius_meters \in QueryRadii, query_ok \in BOOLEAN :
        LET key == cache_key(lat, radius_meters)
            pois == ParsePois(lat, radius_meters)
        IN  /\ gp_pc' = "done"
            /\ gp_args' = [lat |-> lat, radius_meters |-> radius_meters]
            /\ IF key \in DOMAIN poi_cache
                 THEN /\ gp_hit' = TRUE
                      /\ gp_result' = poi_cache[key]
                      /\ UNCHANGED poi_cache
                 ELSE IF ~query_ok
                 THEN /\ gp_hit' = FALSE
                      /\ gp_result' = NoPois
                      /\ UNCHANGED poi_cache
                 ELSE /\ gp_hit' = FALSE
                      /\ gp_result' = pois
                      /\ poi_cache' = [k \in DOMAIN poi_cache \cup {key} |->
                                          IF k = key THEN pois ELSE poi_cache[k]]
            /\ UNCHANGED <<estimatorVars, backfillVars, requestVars, legacyVars, upsertVars, scraperVars>>

\* ------------------------------------------------------------------------
\* scraper.run_scraper
\* ------------------------------------------------------------------------
ListingTypes == {"for_sale", "for_rent", "sold"}

\* the tasks built from args.listing_type
TasksOf(listing_type) ==
    IF listing_type = "for_sale"
    THEN << [type |-> "for_sale", table |-> "properties"],
            [type |-> "for_rent", table |-> "rental_listings"] >>
    ELSE << [type |-> listing_type,
             table |-> IF listing_type = "for_rent" THEN "rental_listings" ELSE "properties"] >>

NoTask == [type |-> "none", table |-> "none"]

\* the records scrape_property can return for a listing type
ScrapePool(l_type) ==
    { [l_type |-> l_type, street |-> st, list_price |-> p] :
        st \in {"1 Main St", "2 Oak Ave"}, p \in {None, Some(0), Some(1500)} }

\* process_listing: a missing price becomes 0
process_listing(row) ==
    Some([address |-> row.street,
          price |-> IF row.list_price = None THEN 0 ELSE Val(row.list_price),
          l_type |-> row.l_type])

\* process_rental: None without a positive price
process_rental(row) ==
    IF row.list_price = None \/ Val(row.list_price) <= 0 THEN None
    ELSE Some([address |-> row.street, price |-> Val(row.list_price), l_type |-> row.l_type])

\* the processor and the table chosen for a row of a task
DataOf(target_table, row) ==
    IF target_table = "listings" THEN process_listing(row) ELSE process_rental(row)

TableNameOf(target_table) ==
    IF target_table = "listings" THEN "listings" ELSE "rental_listings"

Written(table_name, data) ==
    [table |-> table_name, l_type |-> data.l_type, address |-> data.address, price |-> data.price]

NoScraper ==
    /\ sc_pc = "idle"
    /\ sc_args = "for_sale"
    /\ sc_tasks = << >>
    /\ sc_task = NoTask
    /\ sc_records = << >>
    /\ sc_written = {}
    /\ sc_inserted = 0

\* largest number of records one scrape returns
MaxScraped == 2

\* one task is started: the scrape, the filters, the database connection
ScrapeTask ==
    /\ sc_pc = "tasks"
    /\ sc_tasks # << >>
    /\ \E n \in 0..MaxScraped, connected \in BOOLEAN :
        \E records \in [1..n -> ScrapePool(sc_tasks[1].type)] :
          /\ sc_task' = sc_tasks[1]
          /\ sc_tasks' = Tail(sc_tasks)
          /\ IF n = 0
             THEN \* the scrape raised, found nothing, or nothing matched
                  /\ sc_pc' = "tasks"
                  /\ sc_records' = << >>
             ELSE IF ~connected
             THEN \* Failed to connect to DB: return
                  /\ sc_pc' = "done"
                  /\ sc_records' = << >>
             ELSE /\ sc_pc' = "rows"
                  /\ sc_records' = records
    /\ UNCHANGED <<sc_args, sc_written, sc_inserted>>
    /\ UNCHANGED <<estimatorVars, backfillVars, requestVars, legacyVars, upsertVars, gisVars>>

\* one row of cleaned_records is processed and committed
ProcessRow ==
    /\ sc_pc = "rows"
    /\ sc_records # << >>
    /\ LET row == sc_records[1]
           data == DataOf(sc_task.table, row)
           table_name == TableNameOf(sc_task.table)
       IN  \E executed \in BOOLEAN :
             IF data = None
             THEN UNCHANGED <<sc_written, sc_inserted>>
             ELSE LET w == Written(table_name, Val(data))
                  IN  IF table_name = "listings" /\ w \in sc_written
                      THEN \* Skipping unchanged
                           UNCHANGED <<sc_written, sc_inserted>>
                      ELSE IF executed
                      THEN /\ sc_written' =
                                {x \in sc_written :
                                    ~(x.table = table_name /\ x.address = w.address)} \cup {w}
                           /\ sc_inserted' = sc_inserted + 1
                      ELSE \* conn.rollback()
                           UNCHANGED <<sc_written, sc_inserted>>
    /\ sc_records' = Tail(sc_records)
    /\ UNCHANGED <<sc_pc, sc_args, sc_tasks, sc_task>>
    /\ UNCHANGED <<estimatorVars, backfillVars, requestVars, legacyVars, upsertVars, gisVars>>

\* the rows of the task are exhausted: the cursor and the connection are closed
CloseTask ==
    /\ sc_pc = "rows"
    /\ sc_records = << >>
    /\ sc_pc' = "tasks"
    /\ UNCHANGED <<sc_args, sc_tasks, sc_task, sc_records, sc_written, sc_inserted>>
    /\ UNCHANGED <<estimatorVars, backfillVars, requestVars, legacyVars, upsertVars, gisVars>>

\* no task is left: the totals are printed
ScrapeComplete ==
    /\ sc_pc = "tasks"
    /\ sc_tasks = << >>
    /\ sc_pc' = "done"
    /\ UNCHANGED <<sc_args, sc_tasks, sc_task, sc_records, sc_written, sc_inserted>>
    /\ UNCHANGED <<estimatorVars, backfillVars, requestVars, legacyVars, upsertVars, gisVars>>

\* the programs other than the estimator and the backfill at rest
NoAux == NoRequest /\ NoLegacy /\ NoUpsert /\ NoGis /\ NoScraper

\* ------------------------------------------------------------------------
\* Inputs and store contents
\* ------------------------------------------------------------------------
\* largest number of rows of rental_listings
MaxRows == 5

\* listings the rental_listings table is filled from
ListingPool ==
    << [address |-> 1, price |-> 1200, bedrooms |-> 2, latitude |-> Some(50),
        longitude |-> Some(Meridian), age_days |-> 10],
       [address |-> 2, price |-> 1300, bedrooms |-> 3, latitude |-> Some(-100),
        longitude |-> Some(Meridian), age_days |-> 30],
       [address |-> 3, price |-> 1100, bedrooms |-> 2, latitude |-> Some(200),
        longitude |-> Some(Meridian), age_days |-> 89],
       [address |-> 4, price |-> 800, bedrooms |-> 2, latitude |-> Some(50),
        longitude |-> Some(Meridian), age_days |-> 5],
       [address |-> 5, price |-> 1250, bedrooms |-> 3, latitude |-> Some(300),
        longitude |-> Some(Meridian), age_days |-> 5],
       [address |-> 6, price |-> 1600, bedrooms |-> 4, latitude |-> Some(150),
        longitude |-> Some(Meridian), age_days |-> 60],
       [address |-> 7, price |-> 1250, bedrooms |-> 2, latitude |-> None,
        longitude |-> Some(Meridian), age_days |-> 90] >>

\* the rows of the pool with an index in S, in pool order
RECURSIVE PoolRows(_, _)
PoolRows(S, i) ==
    IF i > Len(ListingPool) THEN << >>
    ELSE (IF i \in S THEN <<ListingPool[i]>> ELSE << >>) \o PoolRows(S, i + 1)

ListingTables ==
    {PoolRows(S, 1) : S \in {T \in SUBSET (1..Len(ListingPool)) : Cardinality(T) <= MaxRows}}

Zip44113 == <<"4", "4", "1", "1", "3">>

Zip44114 == <<"4", "4", "1", "1", "4">>

Zip44115 == <<"4", "4", "1", "1", "5">>

BenchmarkTable ==
    (Zip44113 :> Some((BrKey(0) :> Some(900)) @@ (BrKey(1) :> Some(1000))
                      @@ (BrKey(2) :> Some(1200)) @@ (BrKey(3) :> Some(1500))
                      @@ (BrKey(4) :> Some(1800))))
    @@ (Zip44114 :> Some((BrKey(0) :> None) @@ (BrKey(2) :> Some(1000))
                         @@ (BrKey(3) :> Some(0))))

ZipCodes ==
    {None, Some(StrZip(Zip44113 \o <<".", "0">>)), Some(StrZip(Zip44114)),
     Some(StrZip(Zip44115))}

PropertyTypes ==
    {None,
     Some(<<"V", "A", "C", "A", "N", "T", "_", "L", "A", "N", "D">>),
     Some(<<" ", "l", "o", "t", " ">>),
     Some(<<"I", "s", "l", "a", "n", "d">>),
     Some(<<"c", "o", "n", "d", "o">>)}

Latitudes == {None, Some(0)}

Longitudes == {None, Some(Meridian)}

BedroomCounts == {None, Some(0), Some(2), Some(3)}

Queries ==
    [lat : Latitudes, lon : Longitudes, bedrooms : BedroomCounts,
     zip_code : ZipCodes, property_type : PropertyTypes, radius_miles : {RADIUS_MILES}]

Models == {[with_hud |-> 1510, without_hud |-> 1262], [with_hud |-> 990, without_hud |-> 10]}

MlSetups ==
    {[has |-> FALSE, pkl |-> None], [has |-> TRUE, pkl |-> None]}
    \cup {[has |-> TRUE, pkl |-> Some(m)] : m \in Models}

Init ==
    /\ market_benchmarks = BenchmarkTable
    /\ rental_listings \in ListingTables
    /\ \E ml \in MlSetups : HAS_ML_MODEL = ml.has /\ model_pkl = ml.pkl
    /\ cached_model = None
    /\ query \in Queries
    /\ pc = "start"
    /\ hud_rent = None
    /\ comps_result = NoComps
    /\ ml_prediction = None
    /\ result = None
    /\ calls = << >>
    /\ failed = {}
    /\ metadata_json = Some(MarketMetadata)
    /\ cached_metadata = None
    /\ NoCallers
    /\ NoBackfill
    /\ NoAux

Next == Classify \/ FetchHud \/ FetchComps \/ Predict \/ Triangulate

Spec == Init /\ [][Next]_vars

\* ------------------------------------------------------------------------
\* Calls on markets with many comparable listings
\* ------------------------------------------------------------------------
\* largest number of rows of rental_listings in these markets
MaxMarketRows == 18

\* asking prices of the two-bedroom listings of two markets, in row order
MarketPrices ==
    << <<1300, 1250, 1200, 1400, 1100, 1250, 1250, 1250, 700, 1300,
         1350, 1150, 1200, 1450, 1500, 1250, 1275, 1225, 1300, 1200>>,
       <<-100, 1000, 1000, 1000, 950, 1050, 1000, 1000, 600, 1000,
         1100, 900, 1000, 1000, 1050, 950, 1000, 1000, 1000, 1000>> >>

\* distances of the listings of a market from the subject, in row order
MarketLatitudes ==
    <<20, 40, 40, 60, 80, 100, 120, 140, 10, 250,
      30, 50, 70, 90, 110, 130, 150, 160, 170, 180>>

MarketRow(m, i) ==
    [address |-> i, price |-> MarketPrices[m][i], bedrooms |-> 2,
     latitude |-> Some(MarketLatitudes[i]), longitude |-> Some(Meridian),
     age_days |-> 10]

\* the first n rows of market m
MarketRows(m, n) == [i \in 1..Min(n, Len(MarketLatitudes)) |-> MarketRow(m, i)]

\* the rows of a table in the opposite order
Reverse(seq) == [i \in 1..Len(seq) |-> seq[Len(seq) + 1 - i]]

\* the table holds the same rows in either order
MarketTables ==
    UNION {{MarketRows(m, n), Reverse(MarketRows(m, n))} :
              m \in 1..Len(MarketPrices), n \in 0..MaxMarketRows}

MarketZipCodes ==
    {None, Some(StrZip(Zip44113)), Some(FloatZip(44113)),
     Some(StrZip(Zip44113 \o <<".", "0">>)),
     Some(StrZip(Zip44113 \o <<"-", "1", "2", "3", "4">>)), Some(StrZip(Zip44114))}

MarketQueries ==
    [lat : {Some(0)}, lon : {Some(Meridian)}, bedrooms : {Some(2)},
     zip_code : MarketZipCodes,
     property_type : {None, Some(<<" ", "l", "o", "t", " ">>)},
     radius_miles : {RADIUS_MILES}]

MarketModels ==
    {[with_hud |-> 1510, without_hud |-> 1262], [with_hud |-> 2000, without_hud |-> -40]}

MarketMlSetups ==
    {[has |-> FALSE, pkl |-> None]} \cup {[has |-> TRUE, pkl |-> Some(m)] : m \in MarketModels}

InitMarket ==
    /\ market_benchmarks = BenchmarkTable
    /\ rental_listings \in MarketTables
    /\ \E ml \in MarketMlSetups : HAS_ML_MODEL = ml.has /\ model_pkl = ml.pkl
    /\ cached_model = None
    /\ query \in MarketQueries
    /\ pc = "start"
    /\ hud_rent = None
    /\ comps_result = NoComps
    /\ ml_prediction = None
    /\ result = None
    /\ calls = << >>
    /\ failed = {}
    /\ metadata_json = Some(MarketMetadata)
    /\ cached_metadata = None
    /\ NoCallers
    /\ NoBackfill
    /\ NoAux

SpecMarket == InitMarket /\ [][Next]_vars

\* ------------------------------------------------------------------------
\* Calls of predict_rent racing for the model cache
\* ------------------------------------------------------------------------
InitRace ==
    /\ market_benchmarks = BenchmarkTable
    /\ rental_listings = << >>
    /\ HAS_ML_MODEL = TRUE
    /\ model_pkl \in {None} \cup {Some(m) : m \in Models}
    /\ cached_model = None
    /\ query = [lat |-> Some(0), lon |-> Some(Meridian), bedrooms |-> Some(2),
                zip_code |-> Some(StrZip(Zip44113)), property_type |-> None,
                radius_miles |-> RADIUS_MILES]
    /\ pc = "ml"
    /\ hud_rent \in {None, Some(1200)}
    /\ comps_result = NoComps
    /\ ml_prediction = None
    /\ result = None
    /\ calls = << >>
    /\ failed = {}
    /\ metadata_json \in {None, Some(BaseMetadata), Some(MarketMetadata)}
    /\ cached_metadata = None
    /\ call_pc = [p \in Callers |-> "start"]
    /\ call_model = [p \in Callers |-> None]
    /\ call_meta = [p \in Callers |-> None]
    /\ call_ml = [p \in Callers |-> None]
    /\ NoBackfill
    /\ NoAux

NextRace == LoadModelCheck \/ LoadModelPickle \/ LoadModelMetadata \/ PredictRent

SpecRace == InitRace /\ [][NextRace]_vars

\* ------------------------------------------------------------------------
\* The backfill daemon and the listings table
\* ------------------------------------------------------------------------
ListingRows ==
    [estimated_rent : {None, Some(0), Some(1500)}, listing_status : {"FOR_SALE", "SOLD"},
     latitude : {Some(0)}, longitude : {Some(Meridian)}]
    \cup {[estimated_rent |-> None, listing_status |-> "FOR_SALE",
            latitude |-> None, longitude |-> Some(Meridian)]}

InitBackfill ==
    /\ market_benchmarks = BenchmarkTable
    /\ rental_listings = << >>
    /\ HAS_ML_MODEL = FALSE
    /\ model_pkl = None
    /\ cached_model = None
    /\ query = [lat |-> Some(0), lon |-> Some(Meridian), bedrooms |-> Some(2),
                zip_code |-> Some(StrZip(Zip44113)), property_type |-> None,
                radius_miles |-> RADIUS_MILES]
    /\ pc = "start"
    /\ hud_rent = None
    /\ comps_result = NoComps
    /\ ml_prediction = None
    /\ result = None
    /\ calls = << >>
    /\ failed = {}
    /\ metadata_json = None
    /\ cached_metadata = None
    /\ NoCallers
    /\ listings \in [ListingIds -> ListingRows]
    /\ bf_pc = "count"
    /\ bf_ids = {}
    /\ NoAux

NextBackfill ==
    BackfillCount \/ BackfillSelect \/ BackfillUpdate \/ BackfillRestart \/ OtherWriter

SpecBackfill == InitBackfill /\ [][NextBackfill]_vars

\* no call of estimate_rent_v2 under way and no backfill
EstimatorAtRest ==
    /\ market_benchmarks = BenchmarkTable
    /\ HAS_ML_MODEL = FALSE
    /\ model_pkl = None
    /\ cached_model = None
    /\ query = [lat |-> Some(0), lon |-> Some(Meridian), bedrooms |-> Some(2),
                zip_code |-> Some(StrZip(Zip44113)), property_type |-> None,
                radius_miles |-> RADIUS_MILES]
    /\ pc = "start"
    /\ hud_rent = None
    /\ comps_result = NoComps
    /\ ml_prediction = None
    /\ result = None
    /\ calls = << >>
    /\ failed = {}
    /\ metadata_json = None
    /\ cached_metadata = None
    /\ NoCallers
    /\ NoBackfill

\* the same with an empty rental_listings table
AtRest == rental_listings = << >> /\ EstimatorAtRest

\* ------------------------------------------------------------------------
\* Calls of make_request
\* ------------------------------------------------------------------------
InitRequest ==
    /\ AtRest
    /\ mr_pc = "call"
    /\ mr_given \in 0..MaxRetries
    /\ mr_retries = mr_given
    /\ mr_outcomes = << >>
    /\ mr_result = None
    /\ NoLegacy
    /\ NoUpsert
    /\ NoGis
    /\ NoScraper

NextRequest == MakeRequest

SpecRequest == InitRequest /\ [][NextRequest]_vars

\* ------------------------------------------------------------------------
\* Calls of the legacy estimate_rent
\* ------------------------------------------------------------------------
\* largest number of rows of rental_listings for the legacy scorer
MaxLegacyRows == 3

LegacyRow(address, price, bedrooms, bathrooms, sqft, latitude, year_built) ==
    [address |-> address, price |-> price, bedrooms |-> bedrooms,
     bathrooms |-> bathrooms, sqft |-> sqft, latitude |-> latitude,
     longitude |-> Some(Meridian), raw_data |-> [year_built |-> year_built]]

\* listings around a subject at latitude 0: on the spot, at half the
\* radius, at the radius, beyond it, and without coordinates
LegacyPool ==
    << LegacyRow(1, 1200, 2, Some(4), Some(1000), Some(0), Some(1990)),
       LegacyRow(2, 1400, 3, Some(6), Some(1300), Some(75), Some(1970)),
       LegacyRow(3, 1500, 2, Some(4), Some(1000), Some(150), Some(1990)),
       LegacyRow(4, 1000, 2, Some(5), Some(1600), Some(30), Some(1950)),
       LegacyRow(5, 1100, 2, Some(4), Some(1000), None, Some(1990)),
       LegacyRow(6, 1300, 2, Some(4), Some(1000), Some(160), Some(1990)),
       LegacyRow(7, 1250, 1, None, Some(1500), Some(60), Some(1960)),
       LegacyRow(8, 1150, 2, Some(4), Some(1200), Some(90), Some(1975)) >>

RECURSIVE LegacyPoolRows(_, _)
LegacyPoolRows(S, i) ==
    IF i > Len(LegacyPool) THEN << >>
    ELSE (IF i \in S THEN <<LegacyPool[i]>> ELSE << >>) \o LegacyPoolRows(S, i + 1)

LegacyTables ==
    {LegacyPoolRows(S, 1) :
        S \in {T \in SUBSET (1..Len(LegacyPool)) : Cardinality(T) <= MaxLegacyRows}}

LegacyArgs ==
    [lat : {0}, lon : {Meridian}, beds : {None, Some(2)}, baths : {None, Some(4)},
     sqft : {None, Some(1000)}, year_built : {None, Some(1990)},
     zip_code : {None, Some(StrZip(Zip44113))}, radius : {LEGACY_RADIUS}]

InitLegacy ==
    /\ EstimatorAtRest
    /\ NoRequest
    /\ rental_listings \in LegacyTables
    /\ lg_pc = "call"
    /\ lg_args \in LegacyArgs
    /\ lg_comps = << >>
    /\ lg_result = Returned(None)
    /\ NoUpsert
    /\ NoGis
    /\ NoScraper

NextLegacy == EstimateRent

SpecLegacy == InitLegacy /\ [][NextLegacy]_vars

\* ------------------------------------------------------------------------
\* Runs of fetch_rentals and upsert_safmr_data
\* ------------------------------------------------------------------------
\* largest number of rows of a run
MaxUpsertRows == 3

RECURSIVE SeqsOf(_, _)
SeqsOf(S, n) ==
    IF n = 0 THEN {<< >>}
    ELSE {Append(q, x) : q \in SeqsOf(S, n - 1), x \in S}

InitUpsert ==
    /\ AtRest
    /\ NoRequest
    /\ NoLegacy
    /\ up_pc = "loop"
    /\ up_table \in {"rental_listings", "market_benchmarks"}
    /\ up_rows \in UNION {SeqsOf(RowKinds, n) : n \in 1..MaxUpsertRows}
    /\ up_i = 1
    /\ up_count = 0
    /\ up_open = {}
    /\ up_committed = {}
    /\ up_reported = None
    /\ NoGis
    /\ NoScraper

NextUpsert == UpsertRow \/ UpsertCommit

SpecUpsert == InitUpsert /\ [][NextUpsert]_vars

\* ------------------------------------------------------------------------
\* Calls of get_nearby_pois in one process
\* ------------------------------------------------------------------------
InitGis ==
    /\ AtRest
    /\ NoRequest
    /\ NoLegacy
    /\ NoUpsert
    /\ NoGis
    /\ NoScraper

NextGis == GetNearbyPois

SpecGis == InitGis /\ [][NextGis]_vars

\* ------------------------------------------------------------------------
\* Runs of run_scraper
\* ------------------------------------------------------------------------
InitScraper ==
    /\ AtRest
    /\ NoRequest
    /\ NoLegacy
    /\ NoUpsert
    /\ NoGis
    /\ sc_pc = "tasks"
    /\ sc_args \in ListingTypes
    /\ sc_tasks = TasksOf(sc_args)
    /\ sc_task = NoTask
    /\ sc_records = << >>
    /\ sc_written = {}
    /\ sc_inserted = 0

NextScraper == ScrapeTask \/ ProcessRow \/ CloseTask \/ ScrapeComplete

SpecScraper == InitScraper /\ [][NextScraper]_vars

\* ------------------------------------------------------------------------
\* Properties of estimate_rent_v2
\* ------------------------------------------------------------------------
Done == pc = "done" /\ result # None

Rentable == ~is_non_rentable(query.property_type)

Positive(o) == o # None /\ Val(o) > 0

\* the sources whose value in a RentEstimate can enter the blend
ContributingSources(r) ==
    {t \in {"hud", "comps", "ml"} :
        CASE t = "hud"   -> Positive(r.hud_fmr)
          [] t = "comps" -> r.comps_median # None /\ r.comp_count >= 1
          [] t = "ml"    -> Positive(r.ml_prediction)}

HasWeights(r) == r.weights_used # None /\ DOMAIN Val(r.weights_used) # {}

\* C1: a call whose property_type is classified non-rentable returns
\* estimated_rent 0, confidence 1.0 and method 'non_rentable_property_type',
\* whatever the other arguments and the stores hold.
C1_NonRentableResult ==
    (pc = "done" /\ is_non_rentable(query.property_type)) =>
        /\ result # None
        /\ Val(result).estimated_rent = 0
        /\ Val(result).confidence_score = RInt(1)
        /\ Val(result).method = "non_rentable_property_type"

C1_Witness ==
    /\ Done
    /\ query.property_type = Some(<<" ", "l", "o", "t", " ">>)
    /\ query.zip_code # None /\ query.bedrooms = Some(2)
    /\ Len(rental_listings) >= 3
    /\ model_pkl # None
    /\ Val(result).method = "non_rentable_property_type"

NoDataBenchmarks == IF "hud" \in failed THEN << >> ELSE market_benchmarks

NoDataListings == IF "comps" \in failed THEN << >> ELSE rental_listings

NoDataModel == IF "ml" \in failed THEN None ELSE model_pkl

\* C3: with any subset of the sources unavailable a rentable query still gets
\* a RentEstimate, equal to the one obtained when the failed sources hold no
\* data and nothing fails.
C3_FailureIsAbsence ==
    (pc = "done" /\ Rentable) =>
        /\ result # None
        /\ Val(result) = EstimateRentV2(query, NoDataBenchmarks, NoDataListings, TRUE,
                                        None, NoDataModel, "ok", "ok", FALSE)

C3_Witness ==
    /\ Done
    /\ failed = {"comps", "ml"}
    /\ HAS_ML_MODEL /\ model_pkl # None
    /\ Positive(hud_rent)
    /\ CompsOfQuery(query, rental_listings, "ok", hud_rent).count >= 2
    /\ Val(result).method = "hud"

NullInput == query.lat = None \/ query.lon = None \/ query.bedrooms = None

\* C4 as claimed: a query with a missing latitude, longitude or bedroom count
\* is rejected before any store or model call and gets no RentEstimate.
C4_Original == NullInput => (calls = << >> /\ result = None)

InCalls(c) == \E i \in 1..Len(calls) : calls[i] = c

\* C4 as amended: a query with a missing latitude, longitude or bedroom count
\* is not rejected; it gets a RentEstimate, and for a rentable property type
\* the comparables store is queried, the benchmark store is not queried when
\* the bedroom count is missing, and no comp is found when the latitude or
\* longitude is missing.
C4_NullInputAccepted ==
    (pc = "done" /\ NullInput) =>
        /\ result # None
        /\ Rentable =>
            /\ InCalls("comps")
            /\ query.bedrooms = None => ~InCalls("hud")
            /\ (query.lat = None \/ query.lon = None) =>
                   Val(result).comp_count = 0 /\ Val(result).comps_median = None

C4_Witness ==
    /\ Done
    /\ query.lat = None
    /\ Rentable
    /\ ~("comps" \in failed)
    /\ CandidateRows(rental_listings, BedroomsOr3(query.bedrooms), LOOKBACK_DAYS) # << >>
    /\ InCalls("hud") /\ InCalls("comps")
    /\ Val(result).comp_count = 0

\* the row of rental_listings a comp was built from
RowOf(comp) ==
    CHOOSE i \in 1..Len(rental_listings) : rental_listings[i].address = comp.address

IsComp(r, row) == \E i \in 1..Len(ToDictComps(r)) : ToDictComps(r)[i].address = row.address

\* a row that is beyond the radius, or priced below 70% of a present benchmark
Filtered(row, q, hud) ==
    /\ row.latitude # None /\ row.longitude # None
    /\ q.lat # None /\ q.lon # None
    /\ \/ haversine_distance(Val(q.lat), Val(q.lon), Val(row.latitude), Val(row.longitude))
              > q.radius_miles
       \/ hud # None /\ 10 * row.price < 7 * Val(hud)

\* C5: every returned comp lies within radius_miles of the query point and,
\* when a benchmark rent is present, costs at least 0.7 times that rent; a
\* filtered row is not among the comps and does not count in comp_count.
C5_CompsWithinRadiusAndNotScam ==
    Done =>
        LET r == Val(result)
            comps == ToDictComps(r)
        IN  /\ \A i \in 1..Len(comps) :
                  LET row == rental_listings[RowOf(comps[i])]
                  IN  /\ comps[i].distance <= query.radius_miles
                      /\ haversine_distance(Val(query.lat), Val(query.lon),
                                            Val(row.latitude), Val(row.longitude))
                             <= query.radius_miles
                      /\ row.price = comps[i].price
                      /\ r.hud_fmr # None => 10 * comps[i].price >= 7 * Val(r.hud_fmr)
            /\ \A j \in 1..Len(rental_listings) :
                  Filtered(rental_listings[j], query, r.hud_fmr) => ~IsComp(r, rental_listings[j])
            /\ r.comp_count =
                  Cardinality({j \in 1..Len(rental_listings) : IsComp(r, rental_listings[j])})

C5_Witness ==
    /\ Done
    /\ Positive(Val(result).hud_fmr)
    /\ Val(result).comp_count >= 2
    /\ \E j, k \in 1..Len(rental_listings) :
          /\ 10 * rental_listings[j].price < 7 * Val(Val(result).hud_fmr)
          /\ rental_listings[j].latitude = Some(50)
          /\ rental_listings[k].latitude = Some(300)
    /\ \E i \in 1..Val(result).comp_count : ToDictComps(Val(result))[i].distance = 200

\* C6: for every query bedroom count, 0 included, every comp used has a
\* bedroom count within 1 of the query's.
C6_BedroomsWithinOne ==
    (Done /\ query.bedrooms # None) =>
        \A i \in 1..Len(ToDictComps(Val(result))) :
            Abs(ToDictComps(Val(result))[i].beds - Val(query.bedrooms)) <= 1

NoSourceHasData ==
    /\ ~Positive(hud_rent)
    /\ comps_result.count = 0
    /\ ~Positive(ml_prediction)

\* C8: a rentable query gets estimated_rent 0, confidence 0.1 and method
\* 'insufficient_data' if and only if none of the three sources has data.
C8_InsufficientData ==
    (Done /\ Rentable) =>
        /\ NoSourceHasData <=> Val(result).method = "insufficient_data"
        /\ NoSourceHasData =>
              /\ Val(result).estimated_rent = 0
              /\ Val(result).confidence_score = Rat(1, 10)

C8_Witness ==
    /\ Done
    /\ Rentable
    /\ Val(result).method = "insufficient_data"
    /\ hud_rent = Some(0)
    /\ ml_prediction = Some(0)
    /\ Len(rental_listings) >= 2
    /\ "comps" \notin failed

\* the method tag the claim gives to a set of contributing sources
MethodOfSources(K) ==
    CASE K = {"hud"}                -> "hud"
      [] K = {"comps"}              -> "comps"
      [] K = {"ml"}                 -> "ml"
      [] K = {"hud", "comps"}       -> "triangulated_hud_comps"
      [] K = {"hud", "ml"}          -> "triangulated_hud_ml"
      [] K = {"comps", "ml"}        -> "triangulated_comps_ml"
      [] K = {"hud", "comps", "ml"} -> "triangulated_hud_comps_ml"
      [] OTHER                      -> "insufficient_data"

\* C9: a call ends non-rentable, insufficient-data, with the bare tag of the
\* single contributing source, or with 'triangulated_' and the tags of the two
\* or three contributing sources in the order hud, comps, ml; the tags name
\* exactly the keys of weights_used.
C9_TerminalOutcome ==
    Done =>
        LET r == Val(result)
            K == IF r.weights_used = None THEN {} ELSE DOMAIN Val(r.weights_used)
        IN  IF ~Rentable THEN r.method = "non_rentable_property_type" /\ K = {}
            ELSE /\ r.method = MethodOfSources(K)
                 /\ K = ContributingSources(r)

C9_Witness ==
    /\ Done
    /\ Val(result).method = "triangulated_comps_ml"

\* the base weight the claim gives to a contributing source
ClaimedBase(t, comp_count) ==
    CASE t = "hud"   -> 30
      [] t = "ml"    -> 20
      [] t = "comps" -> IF comp_count >= 3 THEN 50 ELSE 30

RECURSIVE SumSet(_, _)
SumSet(S, n) ==
    IF S = {} THEN 0
    ELSE LET t == CHOOSE u \in S : TRUE
         IN  ClaimedBase(t, n) + SumSet(S \ {t}, n)

\* C10: each weight is the base weight of its source (hud 0.30, ml 0.20, comps
\* 0.50 with 3 or more comps and 0.30 with 1 or 2) divided by the sum of the
\* base weights present; hud with 3 or more comps gives 0.375 and 0.625, and
\* comps alone with 2 comps gives 1.0.
C10_BaseWeightsNormalized ==
    (Done /\ HasWeights(Val(result))) =>
        LET r == Val(result)
            w == Val(r.weights_used)
        IN  /\ \A t \in DOMAIN w :
                  w[t] = Rat(ClaimedBase(t, r.comp_count), SumSet(DOMAIN w, r.comp_count))
            /\ ("comps" \in DOMAIN w) <=> r.comp_count >= 1
            /\ (DOMAIN w = {"hud", "comps"} /\ r.comp_count >= 3) =>
                  w["hud"] = <<3, 8>> /\ w["comps"] = <<5, 8>>
            /\ (DOMAIN w = {"comps"} /\ r.comp_count = 2) => w["comps"] = <<1, 1>>

C10_Witness ==
    /\ Done
    /\ HasWeights(Val(result))
    /\ DOMAIN Val(Val(result).weights_used) = {"hud", "comps"}
    /\ Val(result).comp_count >= 3
    /\ Val(Val(result).weights_used)["comps"] = <<5, 8>>

\* the weighted sum the claim gives for the contributing sources of r, as the
\* pair of its numerator and denominator in hundredths
ClaimedValue(r, t) ==
    CASE t = "hud"   -> Val(r.hud_fmr)
      [] t = "comps" -> Val(r.comps_median)
      [] t = "ml"    -> Val(r.ml_prediction)

RECURSIVE ClaimedNumerator(_, _)
ClaimedNumerator(r, S) ==
    IF S = {} THEN 0
    ELSE LET t == CHOOSE u \in S : TRUE
         IN  ClaimedBase(t, r.comp_count) * ClaimedValue(r, t)
             + ClaimedNumerator(r, S \ {t})

\* C11: the estimated rent of a blend is the sum over the contributing
\* sources of normalized weight times source value, rounded to the nearest
\* whole dollar; hud 1200 and comps 1250 from five comps without a model
\* prediction give 1231.
C11_BlendIsRoundedWeightedSum ==
    (Done /\ HasWeights(Val(result))) =>
        LET r == Val(result)
            S == ContributingSources(r)
        IN  /\ r.estimated_rent =
                   RoundHalfEven(ClaimedNumerator(r, S), SumSet(S, r.comp_count))
            /\ (r.hud_fmr = Some(1200) /\ r.comps_median = Some(1250)
                    /\ r.comp_count = 5 /\ r.ml_prediction = None)
                   => r.estimated_rent = 1231

C11_Witness ==
    /\ Done
    /\ Val(result).hud_fmr = Some(1200)
    /\ Val(result).comps_median = Some(1250)
    /\ Val(result).comp_count = 5
    /\ Val(result).ml_prediction = None
    /\ Val(result).estimated_rent = 1231

\* the confidence the claim gives before the penalty, in thousandths
ClaimedConfidence(r) ==
    LET S == ContributingSources(r)
    IN  (IF "hud" \in S THEN 250 ELSE 0)
        + (IF "comps" \in S THEN Min(500, 100 * r.comp_count) ELSE 0)
        + (IF "ml" \in S THEN 150 ELSE 0)

RECURSIVE SumOfValues(_, _)
SumOfValues(r, S) ==
    IF S = {} THEN 0
    ELSE LET t == CHOOSE u \in S : TRUE
         IN  ClaimedValue(r, t) + SumOfValues(r, S \ {t})

\* the largest distance of a contributing value from the mean, times the
\* number of contributing values
MaxDeviation(r) ==
    LET S == ContributingSources(r)
        n == Cardinality(S)
        d == {Abs(n * ClaimedValue(r, t) - SumOfValues(r, S)) : t \in S}
    IN  IF n < 2 THEN 0 ELSE CHOOSE x \in d : \A y \in d : y <= x

\* max|v - mean| / mean * 100 > 25 over the contributing values of r
VarianceAbove25(r) ==
    4 * MaxDeviation(r) > SumOfValues(r, ContributingSources(r))

\* C12: before the penalty the confidence is 0.25 if hud contributes, plus
\* min(0.50, comp_count / 5 * 0.50) if comps contribute, plus 0.15 if ml
\* contributes; the comps term stays at 0.50 from five comps on, hud with
\* five comps gives 0.75 and two comps alone give 0.2.
C12_ConfidenceFromSources ==
    (Done /\ HasWeights(Val(result))) =>
        LET r == Val(result)
            S == ContributingSources(r)
            before == IF VarianceAbove25(r) THEN RMul(r.confidence_score, Rat(10, 8))
                      ELSE r.confidence_score
        IN  /\ before = Rat(ClaimedConfidence(r), 1000)
            /\ (S = {"hud", "comps"} /\ r.comp_count >= 5) => before = <<3, 4>>
            /\ (S = {"comps"} /\ r.comp_count = 2) => r.confidence_score = <<1, 5>>

C12_Witness ==
    /\ Done
    /\ ContributingSources(Val(result)) = {"hud", "comps"}
    /\ Val(result).comp_count = 6
    /\ Val(result).confidence_score = <<3, 4>>

\* C13: variance_pct is max|v - mean| / mean * 100 over the contributing
\* values, and the confidence is multiplied by 0.8 exactly when it is above
\* 25: not at exactly 25, not with a single source, and it is for hud 1000,
\* comps 1000 and ml 1500.
C13_VariancePenalty ==
    (Done /\ HasWeights(Val(result))) =>
        LET r == Val(result)
            S == ContributingSources(r)
            total == SumOfValues(r, S)
            penalised == r.confidence_score # Rat(ClaimedConfidence(r), 1000)
        IN  /\ r.variance_pct =
                   IF MaxDeviation(r) = 0 THEN None
                   ELSE Some(Rat(RoundHalfEven(1000 * MaxDeviation(r), total), 10))
            /\ penalised <=> 100 * MaxDeviation(r) > 25 * total
            /\ penalised => r.confidence_score = Rat(8 * ClaimedConfidence(r), 10000)
            /\ Cardinality(S) = 1 => ~penalised /\ r.variance_pct = None
            /\ (r.hud_fmr = Some(1000) /\ r.comps_median = Some(1000)
                    /\ r.comp_count >= 1 /\ r.ml_prediction = Some(1500)) => penalised

C13_Witness ==
    /\ Done
    /\ Val(result).hud_fmr = Some(1200)
    /\ Val(result).ml_prediction = Some(2000)
    /\ Val(result).comp_count = 0
    /\ Val(result).variance_pct = Some(RInt(25))
    /\ Val(result).confidence_score = <<2, 5>>

\* C14: every RentEstimate produced has a confidence between 0 and 1, an
\* estimated rent of at least 0 and a comp count of at least 0, whatever the
\* inputs and the stores hold.
C14_ResultInRange ==
    Done =>
        /\ ~RLess(Val(result).confidence_score, RInt(0))
        /\ ~RLess(RInt(1), Val(result).confidence_score)
        /\ Val(result).estimated_rent >= 0
        /\ Val(result).comp_count >= 0

C14_Witness ==
    /\ Done
    /\ Rentable
    /\ \E i \in 1..Len(rental_listings) : rental_listings[i].price < 0
    /\ ml_prediction # None /\ Val(ml_prediction) < 0
    /\ Val(result).method = "insufficient_data"

\* the rent market_benchmarks holds for the ZIP and bedroom count of query q
BenchmarkOf(q) == LookupSafmr(market_benchmarks, Val(q.zip_code), q.bedrooms)

\* C15: for every rentable query with a ZIP code and a bedroom count from 0
\* to 4, 0 included, for which market_benchmarks holds a positive rent, the
\* benchmark is looked up, hud_fmr is that rent, it is the scam threshold
\* handed to the comps matcher, and 'hud' is a key of weights_used.
C15_BenchmarkUsedForEveryBedroomCount ==
    (/\ Done /\ Rentable
     /\ TruthyZip(query.zip_code)
     /\ query.bedrooms # None /\ Val(query.bedrooms) \in 0..4
     /\ "hud" \notin failed
     /\ Positive(BenchmarkOf(query))) =>
        /\ InCalls("hud")
        /\ Val(result).hud_fmr = BenchmarkOf(query)
        /\ hud_rent = BenchmarkOf(query)
        /\ HasWeights(Val(result))
        /\ "hud" \in DOMAIN Val(Val(result).weights_used)

\* C16: a call whose property type is classified non-rentable returns
\* without any call to the benchmark store, the comparables store or the
\* model, and no call reaches a source before the classification.
C16_NonRentableCallsNoSource ==
    /\ pc = "start" => calls = << >>
    /\ is_non_rentable(query.property_type) =>
          /\ pc \in {"start", "done"}
          /\ calls = << >>
          /\ failed = {}
          /\ hud_rent = None /\ comps_result = NoComps /\ ml_prediction = None
          /\ cached_model = None

C16_Witness ==
    /\ Done
    /\ is_non_rentable(query.property_type)
    /\ calls = << >>
    /\ TruthyZip(query.zip_code) /\ TruthyNum(query.bedrooms)
    /\ query.lat # None /\ query.lon # None
    /\ Len(rental_listings) >= 3
    /\ HAS_ML_MODEL /\ model_pkl # None

\* no store query failed and the model did not raise in this call
NoFault ==
    /\ "hud" \notin failed
    /\ "comps" \notin failed
    /\ "ml" \in failed => (~HAS_ML_MODEL \/ model_pkl = None)

\* C17: two calls with the same query, the same store contents and the same
\* model return identical RentEstimates (estimate, confidence, method,
\* weights, comps list): the result does not depend on the order in which
\* the comparables store returns its rows.
C17_ResultIndependentOfRowOrder ==
    (Done /\ NoFault) =>
        Val(result) = EstimateRentV2(query, market_benchmarks, Reverse(rental_listings),
                                     HAS_ML_MODEL, None, model_pkl, "ok", "ok", FALSE)

\* the 'ml_estimate' a call gets when no other call runs
AloneEstimate == MlEstimate(model_pkl, metadata_json, hud_rent)

C19_BackfillWritesOnlyMissing ==
    [][(bf_pc = "update" /\ bf_pc' = "select") =>
          \A id \in DOMAIN listings :
              listings[id].estimated_rent \notin {None, Some(0)} =>
                  listings'[id].estimated_rent = listings[id].estimated_rent]_vars

\* the first five characters of a ZIP code given as text
FiveDigits(zip_code) ==
    IF zip_code.t = "float" THEN IntToStr(zip_code.n)
    ELSE SubSeq(zip_code.s, 1, Min(5, Len(zip_code.s)))

\* C20: get_hud_safmr normalizes the ZIP code to its five digits before the
\* lookup: '44113.0' and '44113-1234' are both looked up under '44113'.
C20_ZipNormalizedToFiveDigits ==
    (Done /\ Rentable /\ QueriesHud(query) /\ "hud" \notin failed) =>
        Val(result).hud_fmr =
            LookupSafmr(market_benchmarks, StrZip(FiveDigits(Val(query.zip_code))),
                        query.bedrooms)

\* the candidates of the query that pass the distance and the scam filter
Survivors ==
    {i \in 1..Len(rental_listings) :
        /\ Where(rental_listings[i], BedroomsOr3(query.bedrooms), LOOKBACK_DAYS)
        /\ Abs(Val(rental_listings[i].latitude) - Val(query.lat)) <= query.radius_miles
        /\ ~(Positive(hud_rent) /\ 10 * rental_listings[i].price < 7 * Val(hud_rent))}

\* the comps matcher has returned without a failure
CompsFetched ==
    /\ pc \in {"ml", "blend", "done"} /\ Rentable
    /\ "comps" \notin failed
    /\ query.lat # None /\ query.lon # None

ScoreOfRow(i) ==
    Score(Abs(Val(rental_listings[i].latitude) - Val(query.lat)), query.radius_miles,
          rental_listings[i].bedrooms = BedroomsOr3(query.bedrooms))

\* the rows of rental_listings returned as comps
ReturnedRows ==
    {i \in 1..Len(rental_listings) :
        \E k \in 1..Len(comps_result.comps) :
            comps_result.comps[k].address = rental_listings[i].address}

\* C22: get_scraped_comps returns at most max_comps comps in order of
\* non-increasing similarity score, all of them candidates that pass the
\* distance and the scam filter; no such candidate left out has a strictly
\* higher score than a returned one, and a scam-filtered candidate never
\* takes one of the max_comps slots.
C22_TopCompsByScore ==
    CompsFetched =>
        LET c == comps_result.comps
        IN  /\ Len(c) = Min(MAX_COMPS, Cardinality(Survivors))
            /\ comps_result.count = Len(c)
            /\ \A k \in 1..(Len(c) - 1) : c[k].score >= c[k + 1].score
            /\ ReturnedRows \subseteq Survivors
            /\ Cardinality(ReturnedRows) = Len(c)
            /\ \A i \in Survivors \ ReturnedRows :
                  \A k \in 1..Len(c) : ScoreOfRow(i) <= c[k].score

\* more survivors than slots, and a nearer listing removed as a scam
C22_Witness ==
    /\ CompsFetched
    /\ comps_result.count = MAX_COMPS
    /\ Cardinality(Survivors) > MAX_COMPS
    /\ \E i \in 1..Len(rental_listings) :
          /\ i \notin Survivors
          /\ rental_listings[i].price > 0
          /\ Val(rental_listings[i].latitude) <= query.radius_miles
          /\ \A k \in 1..MAX_COMPS : ScoreOfRow(i) > comps_result.comps[k].score

\* a failure the claim calls transient: rate limiting or a request timeout
Transient(o) ==
    \/ o.kind = "HTTPError" /\ o.code \in {429, 502, 503, 504}
    \/ o.kind = "timeout"

\* C23: make_request retries a request that fails transiently (HTTP 429,
\* 502, 503, 504 or a request timeout), makes at most retries + 1 attempts,
\* never retries another failure, and returns None without raising once the
\* attempts are exhausted.
C23_TransientFailuresRetried ==
    LET n == Len(mr_outcomes)
    IN  /\ n <= mr_given + 1
        /\ \A i \in 1..(n - 1) : Transient(mr_outcomes[i])
        /\ (mr_pc = "returned" /\ Transient(mr_outcomes[n])) =>
              (n = mr_given + 1 /\ mr_result = None)
        /\ (mr_pc = "returned" /\ mr_outcomes[n] # Response(TRUE)) => mr_result = None

\* the single factor the claim gives to the sqft comparison
ClaimedSqftFactor(c, args) ==
    IF TruthyNum(args.sqft) /\ TruthyNum(c.sqft)
    THEN LET d == Abs(Val(c.sqft) - Val(args.sqft))
         IN  IF 2 * d > Val(args.sqft) THEN Rat(8, 10)
             ELSE IF 5 * d > Val(args.sqft) THEN Rat(9, 10)
             ELSE RInt(1)
    ELSE RInt(1)

\* the single factor the claim gives to the year-built comparison
ClaimedYearFactor(c, args) ==
    IF TruthyNum(args.year_built) /\ TruthyNum(c.raw_data.year_built)
    THEN LET d == Abs(Val(c.raw_data.year_built) - Val(args.year_built))
         IN  IF d > 30 THEN Rat(85, 100)
             ELSE IF d > 15 THEN Rat(9, 10)
             ELSE RInt(1)
    ELSE RInt(1)

\* C24: in the legacy scorer the similarity score is the distance-decay term
\* times exactly one factor per attribute: 0.85 for a bedroom mismatch, 0.9
\* for a bathroom delta above 0.5, 0.9 for a sqft deviation in (20%, 50%] and
\* 0.8 above 50%, 0.9 for a year-built delta in (15, 30] and 0.85 above 30.
C24_OneFactorPerAttribute ==
    lg_pc = "done" =>
        \A i \in 1..Len(lg_comps) :
            LET c == lg_comps[i].row
                decay == Rat(LEGACY_RADIUS - lg_comps[i].distance, LEGACY_RADIUS)
            IN  lg_comps[i].similarity_score =
                    RMul(RMul(decay, RMul(BedFactor(c, lg_args), BathFactor(c, lg_args))),
                         RMul(ClaimedSqftFactor(c, lg_args), ClaimedYearFactor(c, lg_args)))

\* C30: the legacy estimate_rent returns an estimate without raising whenever
\* at least one candidate lies within the radius, also when every kept comp
\* has similarity score 0 because it lies exactly at the radius.
C30_LegacyReturnsEstimate ==
    (lg_pc = "done" /\ lg_comps # << >>) =>
        (lg_result.status = "returned" /\ lg_result.value # None)

\* C25: in the batch loop of a backfill run every row processed in a batch
\* leaves the pending set (estimated_rent NULL or 0), whatever
\* calculate_smart_rent returns for it, 0 included, so that the SELECT ends up
\* returning no rows and the same rows are not processed again and again.
C25_ProcessedRowsLeavePending ==
    [][(bf_pc = "update" /\ bf_pc' = "select") =>
          \A id \in bf_ids : ~NeedsRent(listings'[id])]_vars

\* the values of the sources named in weights_used
WeightedValues(r) == {ClaimedValue(r, t) : t \in DOMAIN Val(r.weights_used)}

\* C26: the estimated rent of a blended result lies between the smallest and
\* the largest contributing source value; a source contributes only with a
\* strictly positive value, so that an estimated rent of 0 occurs only for
\* the non-rentable and the insufficient-data outcome.
C26_EstimateWithinSourceRange ==
    Done =>
        LET r == Val(result)
        IN  /\ HasWeights(r) =>
                  /\ \A v \in WeightedValues(r) : v > 0
                  /\ \E v \in WeightedValues(r) : v <= r.estimated_rent
                  /\ \E v \in WeightedValues(r) : r.estimated_rent <= v
            /\ r.estimated_rent = 0 =>
                  r.method \in {"non_rentable_property_type", "insufficient_data"}

\* three sources with different values and the estimate strictly inside
C26_Witness ==
    /\ Done
    /\ HasWeights(Val(result))
    /\ Cardinality(WeightedValues(Val(result))) = 3
    /\ \E v \in WeightedValues(Val(result)) : v < Val(result).estimated_rent
    /\ \E v \in WeightedValues(Val(result)) : Val(result).estimated_rent < v

\* C27: when fetch_rentals finishes, the inserted count it reports equals
\* the number of rows of the run that are committed to rental_listings, for
\* every sequence of successful and failing row upserts; the same holds for
\* the count reported by upsert_safmr_data.
C27_ReportedCountIsCommitted ==
    up_pc = "done" => up_reported = Some(Cardinality(up_committed))

\* the reported count never falls below the rows committed
C27_ReportedAtLeastCommitted ==
    up_pc \in {"done", "failed"} => Val(up_reported) >= Cardinality(up_committed)

\* what a query for exactly the point of the last call returns
FreshPois == ParsePois(gp_args.lat, gp_args.radius_meters)

\* C28: after any sequence of earlier calls, the POIs and distances that
\* get_nearby_pois returns on a cache hit equal those a fresh query for
\* exactly those coordinates and that radius returns.
C28_CacheHitEqualsFreshQuery ==
    (gp_pc = "done" /\ gp_hit) => gp_result = FreshPois

\* a call whose query fails returns {} and leaves the cache as it was
C28_FailedQueryNotCached ==
    [][(gp_pc' = "done" /\ ~gp_hit' /\ gp_result' = NoPois) => poi_cache' = poi_cache]_vars

\* an entry of the cache holds the pois of some point with its key
C28_EntriesComeFromTheirKey ==
    \A k \in DOMAIN poi_cache :
        \E lat \in QueryLats : cache_key(lat, k[2]) = k /\ poi_cache[k] = ParsePois(lat, k[2])

\* C29: in run_scraper no record scraped with listing type for_sale is
\* written to rental_listings; only records scraped as for_rent are upserted
\* there.
C29_OnlyRentalsInRentalListings ==
    \A w \in sc_written : w.table = "rental_listings" => w.l_type = "for_rent"

\* the rows of the for_rent task do go to rental_listings
C29_RentalsGoToRentalListings ==
    \A w \in sc_written : w.l_type = "for_rent" => w.table = "rental_listings"

\* no row of a run reaches the listings table
C29_ListingsNeverWritten ==
    \A w \in sc_written : w.table # "listings"

====
